---- MODULE Spec2Model ----
(***************************************************************************)
(* Feature extraction pipeline of the search-rank predictor                *)
(* (src/API/parsing.py, src/API/wildbox_client.py).                        *)
(*                                                                         *)
(* Python values are modelled as tagged records [t |-> type, v |-> value]; *)
(* a call that can raise returns [exc |-> name or "none", val |-> value].  *)
(***************************************************************************)
EXTENDS Integers, Sequences, FiniteSets, TLC

VARIABLES
    geo_http,   \* HTTP outcome of the geo-availability request
    geo_ret,    \* outcome of get_average_geo_visibility
    pv_pos,     \* a raw position record
    pv_ret,     \* outcome of extract_position_value
    pr_promos,  \* the promos argument of process_promos
    pr_ret,     \* outcome of process_promos
    pd_data,    \* the product_data argument of process_product_data
    pd_ret,     \* outcome of process_product_data
    dl_http,    \* HTTP outcome of the warehouses request
    dl_matrix,  \* the df_matrix argument of get_delivery_features
    dl_ret,     \* outcome of get_delivery_features
    ex_pc,      \* extract_product_features: the next step
    ex_query,   \* its search_query argument
    ex_matrix,  \* its df_matrix argument
    features,   \* its features dict
    ex_raised,  \* the exception that left it, "none" if none did
    ex_calls,   \* the collaborator calls made so far, with their HTTP outcomes
    pf_query,   \* the search_query argument of get_position_features
    pf_http,    \* HTTP outcome of the positions request
    pf_ret,     \* outcome of get_position_features
    ft_log,     \* wildbox_client: the fetch calls made, with requests and result
    df,         \* recomendation.py: the rows read from the CSV
    gain,       \* the predictor: rank gained by changing each feature
    rc_pc,      \* recomendation.py: the next statement
    rc_i,       \* index of the tunable feature the loop is at
    df_copy,    \* the scratch copy of the record
    current_position, \* the baseline prediction
    recommendations,  \* the recommendation list
    rc_calls,   \* the records handed to the predictor, in call order
    rc_out,     \* the report sections printed so far
    sv_json,    \* server: number of history_*.json files
    sv_csv,     \* server: number of history_*.csv files
    sv_extractions, \* server: calls of extract_product_features made
    sv_req,     \* server: the last request handled
    sv_resp,    \* server: the response to it
    report,     \* recomendation.py: what the report sections printed
    sv_owners,  \* server: the clients whose submits wrote the CSV files, oldest first
    sv_used,    \* server: the CSV file the last recommendation was computed from
    product_ids,     \* create_dataset: its product_ids argument
    search_queries,  \* its search_queries argument
    ds_pc,      \* create_dataset: the next statement
    ds_i,       \* index of the pair the loop is at
    dataset,    \* the rows collected so far
    ds_raised   \* the exception or exit that left it, "none" if none did

geo_vars == <<geo_http, geo_ret>>
pv_vars == <<pv_pos, pv_ret>>
pr_vars == <<pr_promos, pr_ret>>
pd_vars == <<pd_data, pd_ret>>
dl_vars == <<dl_http, dl_matrix, dl_ret>>
ex_vars == <<ex_pc, ex_query, ex_matrix, features, ex_raised, ex_calls>>
pf_vars == <<pf_query, pf_http, pf_ret>>
ft_vars == <<ft_log>>
rc_vars == <<df, gain, rc_pc, rc_i, df_copy, current_position, recommendations,
             rc_calls, rc_out, report>>
sv_vars == <<sv_json, sv_csv, sv_extractions, sv_req, sv_resp, sv_owners, sv_used>>
ds_vars == <<product_ids, search_queries, ds_pc, ds_i, dataset, ds_raised>>
vars == <<geo_http, geo_ret, pv_pos, pv_ret, pr_promos, pr_ret, pd_data, pd_ret,
          dl_http, dl_matrix, dl_ret,
          ex_pc, ex_query, ex_matrix, features, ex_raised, ex_calls,
          pf_query, pf_http, pf_ret, ft_log,
          df, gain, rc_pc, rc_i, df_copy, current_position, recommendations,
          rc_calls, rc_out,
          sv_json, sv_csv, sv_extractions, sv_req, sv_resp,
          report, sv_owners, sv_used,
          product_ids, search_queries, ds_pc, ds_i, dataset, ds_raised>>

(***************************************************************************)
(* Python values                                                           *)
(***************************************************************************)
PyNone == [t |-> "None", v |-> 0]
PyBool(b) == [t |-> "bool", v |-> b]
PyInt(n) == [t |-> "int", v |-> n]
PyStr(s) == [t |-> "str", v |-> s]
\* a str held as its sequence of characters, where the program parses it
PyText(q) == [t |-> "text", v |-> q]
PyList(q) == [t |-> "list", v |-> q]
PyDict(f) == [t |-> "dict", v |-> f]
\* a float, held in hundredths (5.0 is PyFloat(500))
PyFloat(hundredths) == [t |-> "float", v |-> hundredths]

EmptyDict == PyDict(<<>>)
EmptyList == PyList(<<>>)

\* bool(x)
Truthy(x) ==
    CASE x.t = "None" -> FALSE
      [] x.t = "bool" -> x.v
      [] x.t = "int" -> x.v # 0
      [] x.t = "float" -> x.v # 0
      [] x.t = "list" -> Len(x.v) > 0
      [] x.t = "str" -> x.v # ""
      [] x.t = "text" -> x.v # <<>>
      [] x.t = "dict" -> DOMAIN x.v # {}
      [] OTHER -> TRUE

\* d.get(k, dflt) on a dict d
DictGet(d, k, dflt) == IF k \in DOMAIN d.v THEN d.v[k] ELSE dflt

Ok(x) == [exc |-> "none", val |-> x]
Raise(e) == [exc |-> e, val |-> PyNone]
NotCalled == [exc |-> "pending", val |-> PyNone]

\* the exception classes every handler of parsing.py catches
CAUGHT == {"ValueError", "KeyError", "TypeError"}

Min2(a, b) == IF a < b THEN a ELSE b
Max2(a, b) == IF a > b THEN a ELSE b

\* Python's round(n / d) for n >= 0, d > 0: ties go to the even integer
RoundHalfFloor(n, d) == n \div d
RoundHalfEven(n, d) ==
    LET q == n \div d
        r == n % d
    IN  IF 2 * r < d THEN q
        ELSE IF 2 * r > d THEN q + 1
        ELSE IF q % 2 = 0 THEN q ELSE q + 1

(***************************************************************************)
(* wildbox_client.get_product_geo_visibility                               *)
(***************************************************************************)
\* an HTTP outcome: the request fails (RequestException) or a JSON body comes back
HttpFail == [ok |-> FALSE, body |-> PyNone]
HttpOk(b) == [ok |-> TRUE, body |-> b]

get_product_geo_visibility(http) == IF http.ok THEN http.body ELSE EmptyDict

(***************************************************************************)
(* parsing.get_average_geo_visibility                                      *)
(***************************************************************************)
\* sum(1 for a in availabilities if a.get('is_availability') is True)
RECURSIVE CountAvailable(_, _)
CountAvailable(avs, i) ==
    IF i > Len(avs) THEN [exc |-> "none", n |-> 0]
    ELSE IF avs[i].t # "dict" THEN [exc |-> "AttributeError", n |-> 0]
    ELSE LET rest == CountAvailable(avs, i + 1)
             hit == DictGet(avs[i], "is_availability", PyNone) = PyBool(TRUE)
         IN  IF rest.exc # "none" THEN rest
             ELSE [exc |-> "none", n |-> rest.n + (IF hit THEN 1 ELSE 0)]

\* 2 if available == total else 1 if available > 0 else 0
RegionScoreNoPartial(available, total) == IF available = total THEN 2 ELSE 0
RegionScore(available, total) ==
    IF available = total THEN 2 ELSE IF available > 0 THEN 1 ELSE 0

\* if total == 0: continue
SkipRegionNever(total) == FALSE
SkipRegion(total) == total = 0

\* the loop over raw_data['results']
RECURSIVE GeoLoop(_, _, _, _)
GeoLoop(entries, i, total_visibility, valid_regions) ==
    IF i > Len(entries)
    THEN [exc |-> "none", tv |-> total_visibility, vr |-> valid_regions]
    ELSE IF entries[i].t # "dict"
    THEN [exc |-> "AttributeError", tv |-> 0, vr |-> 0]
    ELSE LET availabilities == DictGet(entries[i], "availability", EmptyList)
         IN  IF availabilities.t # "list"
             THEN [exc |-> "TypeError", tv |-> 0, vr |-> 0]
             ELSE LET total == Len(availabilities.v)
                      cnt == CountAvailable(availabilities.v, 1)
                  IN  IF SkipRegion(total)
                      THEN GeoLoop(entries, i + 1, total_visibility, valid_regions)
                      ELSE IF cnt.exc # "none"
                      THEN [exc |-> cnt.exc, tv |-> 0, vr |-> 0]
                      ELSE GeoLoop(entries, i + 1,
                                   total_visibility + RegionScore(cnt.n, total),
                                   valid_regions + 1)

get_average_geo_visibility(http) ==
    LET raw_data == get_product_geo_visibility(http)
    IN  IF ~Truthy(raw_data) THEN Ok(PyInt(0))
        ELSE IF raw_data.t # "dict" THEN Ok(PyInt(0))
        ELSE IF "results" \notin DOMAIN raw_data.v THEN Ok(PyInt(0))
        ELSE IF raw_data.v["results"].t # "list" THEN Ok(PyInt(0))
        ELSE LET acc == GeoLoop(raw_data.v["results"].v, 1, 0, 0)
             IN  IF acc.exc \in CAUGHT THEN Ok(PyInt(0))
                 ELSE IF acc.exc # "none" THEN Raise(acc.exc)
                 ELSE IF acc.vr = 0 THEN Ok(PyInt(0))
                 ELSE Ok(PyInt(Min2(Max2(RoundHalfEven(acc.tv, acc.vr), 0), 2)))

(***************************************************************************)
(* Inputs of the geo-visibility specification                              *)
(***************************************************************************)
MaxSamples == 2
MaxRegions == 3

SeqsUpTo(S, n) == UNION {[1..k -> S] : k \in 0..n}

GeoSample == {PyDict([is_availability |-> PyBool(TRUE)]),
              PyDict([is_availability |-> PyBool(FALSE)])}
GeoEntry ==
    {PyDict([availability |-> PyList(q)]) : q \in SeqsUpTo(GeoSample, MaxSamples)}
    \cup {PyDict([availability |-> PyList(<<PyStr("x")>>)]),
          PyDict([availability |-> PyNone]),
          PyDict([region |-> PyInt(1)]),
          PyStr("x")}
GeoHttp ==
    {HttpFail, HttpOk(EmptyDict), HttpOk(PyDict([detail |-> PyStr("x")])),
     HttpOk(PyDict([results |-> PyNone]))}
    \cup {HttpOk(PyDict([results |-> PyList(q)])) : q \in SeqsUpTo(GeoEntry, MaxRegions)}

GeoIdle == geo_http = HttpFail /\ geo_ret = NotCalled
PvIdle == pv_pos = EmptyDict /\ pv_ret = NotCalled

PrIdle == pr_promos = EmptyList /\ pr_ret = NotCalled
PdIdle == pd_data = EmptyDict /\ pd_ret = NotCalled
DlIdle ==
    /\ dl_http = HttpFail
    /\ dl_matrix = [frame |-> FALSE, cols |-> FALSE, rows |-> <<>>]
    /\ dl_ret = NotCalled
ExIdle ==
    /\ ex_pc = "idle"
    /\ ex_query = PyNone
    /\ ex_matrix = [frame |-> FALSE, cols |-> FALSE, rows |-> <<>>]
    /\ features = <<>>
    /\ ex_raised = "none"
    /\ ex_calls = <<>>
PfIdle == pf_query = PyNone /\ pf_http = HttpFail /\ pf_ret = NotCalled
FtIdle == ft_log = <<>>
RcIdle ==
    /\ df = <<>> /\ gain = <<>> /\ rc_pc = "idle" /\ rc_i = 0 /\ df_copy = <<>>
    /\ current_position = 0 /\ recommendations = <<>> /\ rc_calls = <<>>
    /\ rc_out = <<>> /\ report = <<>>
SvIdle ==
    /\ sv_json = 0 /\ sv_csv = 0 /\ sv_extractions = 0
    /\ sv_req = [op |-> "none"] /\ sv_resp = [status |-> 0, detail |-> ""]
    /\ sv_owners = <<>> /\ sv_used = 0
DsIdle ==
    /\ product_ids = <<>> /\ search_queries = <<>> /\ ds_pc = "idle" /\ ds_i = 0
    /\ dataset = <<>> /\ ds_raised = "none"

GeoInit ==
    /\ geo_http \in GeoHttp /\ geo_ret = NotCalled
    /\ PvIdle /\ PrIdle /\ PdIdle /\ DlIdle /\ ExIdle /\ PfIdle /\ FtIdle /\ RcIdle /\ SvIdle /\ DsIdle

GeoCall ==
    /\ geo_ret = NotCalled
    /\ geo_ret' = get_average_geo_visibility(geo_http)
    /\ UNCHANGED <<geo_http, pv_vars, pr_vars, pd_vars, dl_vars, ex_vars,
                   pf_vars, ft_vars, rc_vars, sv_vars, ds_vars>>

SpecGeo == GeoInit /\ [][GeoCall]_vars

(***************************************************************************)
(* Geo-visibility claims                                                   *)
(***************************************************************************)
GeoEntries(http) ==
    IF http.ok /\ http.body.t = "dict" /\ "results" \in DOMAIN http.body.v
       /\ http.body.v["results"].t = "list"
    THEN http.body.v["results"].v ELSE <<>>

\* a region entry with zero availability samples
ZeroSample(e) ==
    e.t = "dict" /\ DictGet(e, "availability", EmptyList) = EmptyList

\* an entry that carries a list of well-formed samples
WellFormedEntry(e) ==
    /\ e.t = "dict"
    /\ DictGet(e, "availability", EmptyList).t = "list"
    /\ \A i \in DOMAIN DictGet(e, "availability", EmptyList).v :
          DictGet(e, "availability", EmptyList).v[i].t = "dict"

WellFormedGeo(http) == \A i \in DOMAIN GeoEntries(http) : WellFormedEntry(GeoEntries(http)[i])

\* the response with its zero-sample entries removed
StripZeroSample(http) ==
    IF GeoEntries(http) = <<>> THEN http
    ELSE HttpOk(PyDict([x \in DOMAIN http.body.v |->
            IF x = "results"
            THEN PyList(SelectSeq(GeoEntries(http), LAMBDA e : ~ZeroSample(e)))
            ELSE http.body.v[x]]))

ScoredIdx(http) == {i \in DOMAIN GeoEntries(http) : ~ZeroSample(GeoEntries(http)[i])}
SamplesOf(e) == e.v["availability"].v
AvailableIn(e) ==
    Cardinality({j \in DOMAIN SamplesOf(e) :
        DictGet(SamplesOf(e)[j], "is_availability", PyNone) = PyBool(TRUE)})
ScoreOf(e) ==
    IF AvailableIn(e) = Len(SamplesOf(e)) THEN 2
    ELSE IF AvailableIn(e) = 0 THEN 0 ELSE 1
RECURSIVE SumScores(_, _)
SumScores(http, I) ==
    IF I = {} THEN 0
    ELSE LET i == CHOOSE j \in I : TRUE
         IN  ScoreOf(GeoEntries(http)[i]) + SumScores(http, I \ {i})

\* C6: on a well-formed response the result is the integer nearest to the
\* mean of the per-region scores (2 all available, 1 some, 0 none) over the
\* regions with a sample, within [0,2]; scores [2,1] give 2; a failed fetch, a
\* response without results or without any sampled region gives 0.
C6_GeoScore ==
    (geo_ret # NotCalled /\ WellFormedGeo(geo_http)) =>
        LET n == Cardinality(ScoredIdx(geo_http))
            s == SumScores(geo_http, ScoredIdx(geo_http))
            r == geo_ret.val.v
        IN  /\ geo_ret.exc = "none"
            /\ n = 0 => r = 0
            /\ n > 0 => /\ r \in 0..2
                        /\ 2 * (r * n - s) <= n
                        /\ 2 * (s - r * n) <= n
            /\ (n = 2 /\ s = 3) => r = 2

C6_Witness ==
    /\ geo_ret = Ok(PyInt(2))
    /\ WellFormedGeo(geo_http)
    /\ Cardinality(ScoredIdx(geo_http)) = 2
    /\ SumScores(geo_http, ScoredIdx(geo_http)) = 3

(***************************************************************************)
(* parsing.extract_position_value                                          *)
(***************************************************************************)
\* text is a sequence of characters
DigitVal(c) ==
    CASE c = "0" -> 0 [] c = "1" -> 1 [] c = "2" -> 2 [] c = "3" -> 3
      [] c = "4" -> 4 [] c = "5" -> 5 [] c = "6" -> 6 [] c = "7" -> 7
      [] c = "8" -> 8 [] c = "9" -> 9 [] OTHER -> -1

RECURSIVE DigitsVal(_, _, _)
DigitsVal(q, i, acc) ==
    IF i > Len(q) THEN acc
    ELSE IF DigitVal(q[i]) < 0 THEN -1
    ELSE DigitsVal(q, i + 1, 10 * acc + DigitVal(q[i]))

\* float(text) for text of the shape [-]digits[.digit[digit]], in
\* hundredths; anything else is a ValueError
ParseFloat(q) ==
    LET neg == Len(q) > 0 /\ q[1] = "-"
        body == IF neg THEN Tail(q) ELSE q
        frac1 == Len(body) >= 3 /\ body[Len(body) - 1] = "."
        frac2 == Len(body) >= 4 /\ body[Len(body) - 2] = "."
        ipart == IF frac2 THEN SubSeq(body, 1, Len(body) - 3)
                 ELSE IF frac1 THEN SubSeq(body, 1, Len(body) - 2)
                 ELSE body
        iv == IF ipart = <<>> THEN -1 ELSE DigitsVal(ipart, 1, 0)
        fv == IF frac2 THEN DigitsVal(SubSeq(body, Len(body) - 1, Len(body)), 1, 0)
              ELSE IF frac1 THEN 10 * DigitVal(body[Len(body)])
              ELSE 0
    IN  IF iv < 0 \/ fv < 0 THEN Raise("ValueError")
        ELSE Ok(PyFloat((IF neg THEN -1 ELSE 1) * (100 * iv + fv)))

\* float(x)
ToFloat(x) ==
    CASE x.t = "int" -> Ok(PyFloat(100 * x.v))
      [] x.t = "float" -> Ok(x)
      [] x.t = "bool" -> Ok(PyFloat(IF x.v THEN 100 ELSE 0))
      [] x.t = "text" -> ParseFloat(x.v)
      [] x.t = "str" -> Raise("ValueError")
      [] OTHER -> Raise("TypeError")

PosKeysPositionFirst == <<"position", "expected_position", "general_position", "pos">>
PosKeys == <<"expected_position", "position", "general_position", "pos">>

\* if pos_num > 0: return pos_num
PositiveOrZero(hundredths) == hundredths >= 0
Positive(hundredths) == hundredths > 0

RECURSIVE ExtractLoopStopAtFirst(_, _)
ExtractLoopStopAtFirst(pos, i) ==
    IF i > Len(PosKeys) THEN Ok(PyNone)
    ELSE IF DictGet(pos, PosKeys[i], PyNone) = PyNone THEN ExtractLoopStopAtFirst(pos, i + 1)
    ELSE LET pos_num == ToFloat(pos.v[PosKeys[i]])
         IN  IF pos_num.exc = "none" /\ Positive(pos_num.val.v) THEN pos_num
             ELSE Ok(PyNone)

\* for key in keys: ...
RECURSIVE ExtractLoop(_, _)
ExtractLoop(pos, i) ==
    IF i > Len(PosKeys) THEN Ok(PyNone)
    ELSE IF DictGet(pos, PosKeys[i], PyNone) = PyNone THEN ExtractLoop(pos, i + 1)
    ELSE LET pos_num == ToFloat(pos.v[PosKeys[i]])
         IN  IF pos_num.exc \in {"TypeError", "ValueError"} THEN ExtractLoop(pos, i + 1)
             ELSE IF pos_num.exc # "none" THEN pos_num
             ELSE IF Positive(pos_num.val.v) THEN pos_num
             ELSE ExtractLoop(pos, i + 1)

extract_position_value(pos) ==
    IF pos.t # "dict" THEN Raise("AttributeError") ELSE ExtractLoop(pos, 1)

(***************************************************************************)
(* Inputs of the position-value specification                              *)
(***************************************************************************)
PosRaw ==
    {PyNone, PyInt(0), PyInt(5), PyInt(30),
     PyText(<<"5">>), PyText(<<"3", "0">>), PyText(<<"-", "3">>), PyText(<<"2", ".", "5">>),
     PyText(<<"a">>), PyList(<<>>)}

PosKeySet == {PosKeys[i] : i \in DOMAIN PosKeys}
PosRecord == UNION {{PyDict(f) : f \in [K -> PosRaw]} : K \in SUBSET PosKeySet}

PvInit ==
    /\ pv_pos \in PosRecord /\ pv_ret = NotCalled
    /\ GeoIdle /\ PrIdle /\ PdIdle /\ DlIdle /\ ExIdle /\ PfIdle /\ FtIdle /\ RcIdle /\ SvIdle /\ DsIdle

PvCall ==
    /\ pv_ret = NotCalled
    /\ pv_ret' = extract_position_value(pv_pos)
    /\ UNCHANGED <<pv_pos, geo_vars, pr_vars, pd_vars, dl_vars, ex_vars,
                   pf_vars, ft_vars, rc_vars, sv_vars, ds_vars>>

SpecPosValue == PvInit /\ [][PvCall]_vars

(***************************************************************************)
(* Position-value claims                                                   *)
(***************************************************************************)
KeyOrder == <<"expected_position", "position", "general_position", "pos">>

\* the value under key k is non-null and parses to a number > 0
Qualifies(pos, k) ==
    /\ k \in DOMAIN pos.v
    /\ pos.v[k] # PyNone
    /\ ToFloat(pos.v[k]).exc = "none"
    /\ ToFloat(pos.v[k]).val.v > 0

\* C4: extract_position_value returns the number under the first of the keys
\* expected_position, position, general_position, pos whose value is non-null
\* and parses to a number > 0, and None when no key qualifies; with
\* position 30 and expected_position 5 it returns 5.
C4_PositionPriority ==
    pv_ret # NotCalled =>
        LET Q == {i \in DOMAIN KeyOrder : Qualifies(pv_pos, KeyOrder[i])}
        IN  /\ pv_ret.exc = "none"
            /\ Q = {} => pv_ret.val = PyNone
            /\ Q # {} =>
                  LET first == CHOOSE i \in Q : \A j \in Q : i <= j
                  IN  pv_ret.val = ToFloat(pv_pos.v[KeyOrder[first]]).val
            /\ (/\ DictGet(pv_pos, "position", PyNone) \in {PyInt(30), PyText(<<"3", "0">>)}
                /\ DictGet(pv_pos, "expected_position", PyNone) \in {PyInt(5), PyText(<<"5">>)})
                  => pv_ret.val = PyFloat(500)
            /\ pv_pos = PyDict([position |-> PyText(<<"-", "3">>)]) => pv_ret.val = PyNone

\* a non-positive expected_position is skipped and a later key supplies the value
C4_Witness ==
    /\ pv_ret = Ok(PyFloat(3000))
    /\ DictGet(pv_pos, "expected_position", PyNone) = PyText(<<"-", "3">>)
    /\ DictGet(pv_pos, "position", PyNone) = PyText(<<"a">>)
    /\ DictGet(pv_pos, "general_position", PyNone) = PyText(<<"3", "0">>)

(***************************************************************************)
(* parsing.process_promos                                                  *)
(*                                                                         *)
(* A datetime is a count of ticks, TicksPerDay to the day; an ISO          *)
(* timestamp text is the pair <<day, tick of the day>>.                    *)
(***************************************************************************)
TicksPerDay == 2
MaxDay == 4
MaxPromos == 2

IsoText(day, tick) == PyText(<<day, tick>>)

\* datetime.fromisoformat(x)
fromisoformat(x) ==
    IF x.t \notin {"str", "text"} THEN Raise("TypeError")
    ELSE IF x.t = "str" \/ Len(x.v) # 2 THEN Raise("ValueError")
    ELSE Ok(x.v[1] * TicksPerDay + x.v[2])

\* current.date()
DateOf(dt) == dt \div TicksPerDay

\* while current <= end: promo_dates.add(current.date()); current += timedelta(days=1)
RECURSIVE PromoDates(_, _)
PromoDates(current, end) ==
    IF current <= end
    THEN {DateOf(current)} \cup PromoDates(current + TicksPerDay, end)
    ELSE {}

\* promo['start_date'] / promo['end_date']
PromoField(promo, k) ==
    IF promo.t # "dict" THEN Raise("TypeError")
    ELSE IF k \notin DOMAIN promo.v THEN Raise("KeyError")
    ELSE fromisoformat(promo.v[k])

\* the body of the for loop: the dates one promo adds, or the exception that
\* leaves the try block
PromoStep(promo) ==
    LET start == PromoField(promo, "start_date")
        end == PromoField(promo, "end_date")
    IN  IF start.exc # "none" THEN [exc |-> start.exc, dates |-> {}]
        ELSE IF end.exc # "none" THEN [exc |-> end.exc, dates |-> {}]
        ELSE [exc |-> "none", dates |-> PromoDates(start.val, end.val)]

\* for promo in promos: try ... except (ValueError, KeyError): continue
RECURSIVE PromoLoop(_, _, _)
PromoLoop(promos, i, promo_dates) ==
    IF i > Len(promos) THEN [exc |-> "none", dates |-> promo_dates]
    ELSE LET step == PromoStep(promos[i])
         IN  IF step.exc \in {"ValueError", "KeyError"}
             THEN PromoLoop(promos, i + 1, promo_dates)
             ELSE IF step.exc # "none" THEN [exc |-> step.exc, dates |-> {}]
             ELSE PromoLoop(promos, i + 1, promo_dates \cup step.dates)

process_promos(promos) ==
    IF promos.t # "list" THEN Raise("TypeError")
    ELSE LET loop == PromoLoop(promos.v, 1, {})
         IN  IF loop.exc # "none" THEN Raise(loop.exc)
             ELSE Ok(PyDict([has_promos |-> PyInt(IF Truthy(promos) THEN 1 ELSE 0),
                             promo_days |-> PyInt(Cardinality(loop.dates))]))

(***************************************************************************)
(* Inputs of the promotions specification                                  *)
(***************************************************************************)
\* timestamps at midnight or at the last tick of a day
PromoTime == {IsoText(d, k) : d \in 1..MaxDay, k \in {0, TicksPerDay - 1}}

WellFormedPromo ==
    {PyDict([start_date |-> a, end_date |-> b]) : a \in PromoTime, b \in PromoTime}

StartsBeforeEnd(promo) ==
    fromisoformat(promo.v["start_date"]).val <= fromisoformat(promo.v["end_date"]).val

MalformedPromo ==
    {PyDict([end_date |-> IsoText(1, 0)]),
     PyDict([start_date |-> IsoText(1, 0), end_date |-> PyNone]),
     PyDict([start_date |-> PyText(<<>>), end_date |-> IsoText(MaxDay, 0)]),
     PyDict([start_date |-> IsoText(1, 0), end_date |-> PyText(<<>>)]),
     PyText(<<>>)}

Promo == {p \in WellFormedPromo : StartsBeforeEnd(p)} \cup MalformedPromo

PrInit ==
    /\ pr_promos \in {PyList(q) : q \in SeqsUpTo(Promo, MaxPromos)}
    /\ pr_ret = NotCalled
    /\ GeoIdle /\ PvIdle /\ PdIdle /\ DlIdle /\ ExIdle /\ PfIdle /\ FtIdle /\ RcIdle /\ SvIdle /\ DsIdle

PrCall ==
    /\ pr_ret = NotCalled
    /\ pr_ret' = process_promos(pr_promos)
    /\ UNCHANGED <<pr_promos, geo_vars, pv_vars, pd_vars, dl_vars, ex_vars,
                   pf_vars, ft_vars, rc_vars, sv_vars, ds_vars>>

SpecPromos == PrInit /\ [][PrCall]_vars

(***************************************************************************)
(* Promotion claims                                                        *)
(***************************************************************************)
AllWellFormed(promos) == \A i \in DOMAIN promos.v : promos.v[i] \in WellFormedPromo

\* the calendar dates of the inclusive intervals [start_date, end_date]
CoveredDates(promos) ==
    UNION {DateOf(fromisoformat(promos.v[i].v["start_date"]).val) ..
           DateOf(fromisoformat(promos.v[i].v["end_date"]).val) : i \in DOMAIN promos.v}

\* C7: for promotions with parseable timestamps, start <= end, at any time of
\* day, promo_days is the number of distinct calendar dates in the union of
\* the inclusive intervals [start_date, end_date].
C7_PromoDaysAllDates ==
    (pr_ret # NotCalled /\ AllWellFormed(pr_promos)) =>
        /\ pr_ret.exc = "none"
        /\ pr_ret.val.v["promo_days"] = PyInt(Cardinality(CoveredDates(pr_promos)))

(***************************************************************************)
(* parsing.process_product_data                                            *)
(*                                                                         *)
(* Tier names are transliterated: Zolotoy (gold), Serebryany (silver),     *)
(* Bronzovy (bronze), Nachalny (starter), "Net dannyh" (no data).          *)
(***************************************************************************)
REVENUE_THRESHOLDS_ASCENDING ==
    <<[level |-> "Nachalny", threshold |-> 50000],
      [level |-> "Bronzovy", threshold |-> 382000],
      [level |-> "Serebryany", threshold |-> 1868000],
      [level |-> "Zolotoy", threshold |-> 8709000]>>
\* in the dict's insertion order
REVENUE_THRESHOLDS ==
    <<[level |-> "Zolotoy", threshold |-> 8709000],
      [level |-> "Serebryany", threshold |-> 1868000],
      [level |-> "Bronzovy", threshold |-> 382000],
      [level |-> "Nachalny", threshold |-> 50000]>>

NO_DATA == "Net dannyh"

IsNumber(x) == x.t \in {"int", "float", "bool"}
\* the numeric value of a number, in hundredths
Hundredths(x) ==
    CASE x.t = "int" -> 100 * x.v
      [] x.t = "float" -> x.v
      [] x.t = "bool" -> IF x.v THEN 100 ELSE 0

\* revenue >= threshold
ReachesStrict(revenue, threshold) == Hundredths(revenue) > 100 * threshold
Reaches(revenue, threshold) == Hundredths(revenue) >= 100 * threshold

\* for level, threshold in REVENUE_THRESHOLDS.items(): ... break
RECURSIVE LoyaltyLoop(_, _)
LoyaltyLoop(revenue, i) ==
    IF i > Len(REVENUE_THRESHOLDS) THEN Ok(PyStr(NO_DATA))
    ELSE IF ~IsNumber(revenue) THEN Raise("TypeError")
    ELSE IF Reaches(revenue, REVENUE_THRESHOLDS[i].threshold)
    THEN Ok(PyStr(REVENUE_THRESHOLDS[i].level))
    ELSE LoyaltyLoop(revenue, i + 1)

process_product_data(product_data) ==
    IF product_data.t # "dict" THEN Raise("AttributeError")
    ELSE LET revenue == DictGet(product_data, "proceeds", PyInt(0))
             level == LoyaltyLoop(revenue, 1)
         IN  IF level.exc # "none" THEN level
             ELSE Ok(PyDict(
                [orders |-> DictGet(product_data, "orders", PyInt(0)),
                 revenue |-> revenue,
                 price |-> DictGet(product_data, "price", PyInt(0)),
                 discount |-> DictGet(product_data, "discount", PyInt(0)),
                 old_price |-> DictGet(product_data, "old_price", PyInt(0)),
                 rating |-> DictGet(product_data, "rating", PyInt(0)),
                 in_stock_percent |-> DictGet(product_data, "in_stock_percent", PyInt(0)),
                 reviews_last_day |->
                     DictGet(product_data, "reviews",
                             DictGet(product_data, "feedbacks", PyInt(0))),
                 loyalty_level |-> level.val]))

(***************************************************************************)
(* Inputs of the product-data specification                                *)
(***************************************************************************)
\* revenues at, just below and just above every threshold
RevenueValue ==
    {PyInt(0), PyNone, PyFloat(870899999)}
    \cup {PyInt(REVENUE_THRESHOLDS[i].threshold + d) :
            i \in DOMAIN REVENUE_THRESHOLDS, d \in {-1, 0, 1}}

\* a dict over the keys K, each key either absent or holding one of its values
OptionalDict(vals) ==
    UNION {{PyDict(f) : f \in {g \in [K -> UNION {vals[k] : k \in DOMAIN vals}] :
                                 \A k \in K : g[k] \in vals[k]}} :
           K \in SUBSET DOMAIN vals}

ProductData ==
    OptionalDict([proceeds |-> RevenueValue, orders |-> {PyInt(10)},
                  reviews |-> {PyInt(3)}, feedbacks |-> {PyInt(7)}])

PdInit ==
    /\ pd_data \in ProductData
    /\ pd_ret = NotCalled
    /\ GeoIdle /\ PvIdle /\ PrIdle /\ DlIdle /\ ExIdle /\ PfIdle /\ FtIdle /\ RcIdle /\ SvIdle /\ DsIdle

PdCall ==
    /\ pd_ret = NotCalled
    /\ pd_ret' = process_product_data(pd_data)
    /\ UNCHANGED <<pd_data, geo_vars, pv_vars, pr_vars, dl_vars, ex_vars,
                   pf_vars, ft_vars, rc_vars, sv_vars, ds_vars>>

SpecProduct == PdInit /\ [][PdCall]_vars

(***************************************************************************)
(* Loyalty-tier claims                                                     *)
(***************************************************************************)
\* C8: process_product_data assigns exactly one tier: Zolotoy from 8709000,
\* Serebryany from 1868000 up to below 8709000, Bronzovy from 382000,
\* Nachalny from 50000, and the no-data sentinel below 50000.
C8_LoyaltyTier ==
    (pd_ret # NotCalled /\ IsNumber(DictGet(pd_data, "proceeds", PyInt(0)))) =>
        LET r == Hundredths(DictGet(pd_data, "proceeds", PyInt(0)))
            tier == pd_ret.val.v["loyalty_level"]
        IN  /\ pd_ret.exc = "none"
            /\ tier \in {PyStr("Zolotoy"), PyStr("Serebryany"), PyStr("Bronzovy"),
                          PyStr("Nachalny"), PyStr("Net dannyh")}
            /\ tier = PyStr("Zolotoy") <=> r >= 870900000
            /\ tier = PyStr("Serebryany") <=> (r >= 186800000 /\ r < 870900000)
            /\ tier = PyStr("Bronzovy") <=> (r >= 38200000 /\ r < 186800000)
            /\ tier = PyStr("Nachalny") <=> (r >= 5000000 /\ r < 38200000)
            /\ tier = PyStr("Net dannyh") <=> r < 5000000

\* revenue exactly at the Serebryany threshold
C8_Witness ==
    /\ pd_ret # NotCalled
    /\ DictGet(pd_data, "proceeds", PyNone) = PyInt(1868000)
    /\ pd_ret.val.v["loyalty_level"] = PyStr("Serebryany")

(***************************************************************************)
(* wildbox_client: warehouses and the logistics matrix                     *)
(*                                                                         *)
(* Region codes and warehouse names are transliterated.                    *)
(***************************************************************************)
FALLBACK_WAREHOUSES == {"Podolsk", "Koledino", "Elektrostal", "Kazan"}

FO_LIST == <<"YUFO", "PFO", "UFO", "DFO", "SFO", "SZFO", "CFO">>
FO_SET == {FO_LIST[i] : i \in DOMAIN FO_LIST}

\* a missing value of a pandas column
NaN == [t |-> "nan", v |-> 0]

\* list({w.get("name") for w in r.json() if w.get("name")}): the names, whose
\* order in the returned list is that of a set's iteration
get_all_warehouses_for_product(http) ==
    IF ~http.ok THEN [exc |-> "none", names |-> {}]
    ELSE IF http.body = EmptyDict THEN [exc |-> "none", names |-> {}]
    ELSE IF http.body.t = "dict" THEN [exc |-> "AttributeError", names |-> {}]
    ELSE IF http.body.t # "list" THEN [exc |-> "TypeError", names |-> {}]
    ELSE IF \E i \in DOMAIN http.body.v : http.body.v[i].t # "dict"
    THEN [exc |-> "AttributeError", names |-> {}]
    ELSE [exc |-> "none",
          names |-> {DictGet(http.body.v[i], "name", PyNone).v :
                        i \in {j \in DOMAIN http.body.v :
                                  Truthy(DictGet(http.body.v[j], "name", PyNone))}}]

\* df_matrix[df_matrix['Sklad'].isin(names)]
RowsOf(df_matrix, names) == SelectSeq(df_matrix.rows, LAMBDA r : r.Sklad \in names)

\* lambda x: x if x > 1 else None
MeasuredFromZero(x) == x > 0
Measured(x) == x > 1

\* numeric.min(): the least measured duration of a column, NaN if there is none
ColumnMinFirstRow(filtered, fo) ==
    IF filtered # <<>> /\ Measured(filtered[1].dur[fo])
    THEN PyInt(filtered[1].dur[fo]) ELSE NaN
ColumnMin(filtered, fo) ==
    LET xs == {filtered[i].dur[fo] : i \in DOMAIN filtered}
        ok == {x \in xs : Measured(x)}
    IN  IF ok = {} THEN NaN ELSE PyInt(CHOOSE x \in ok : \A y \in ok : x <= y)

\* filtered, with the fallback when it is empty
ResolvedRowsNoFallback(df_matrix, names) == RowsOf(df_matrix, names)
ResolvedRows(df_matrix, names) ==
    IF RowsOf(df_matrix, names) = <<>>
    THEN RowsOf(df_matrix, FALLBACK_WAREHOUSES)
    ELSE RowsOf(df_matrix, names)

get_delivery_times(http, df_matrix) ==
    LET warehouses == get_all_warehouses_for_product(http)
    IN  IF warehouses.exc # "none" THEN Raise(warehouses.exc)
        ELSE IF ~df_matrix.cols THEN Raise("KeyError")
        ELSE Ok([fo \in FO_SET |->
                    ColumnMin(ResolvedRows(df_matrix, warehouses.names), fo)])

(***************************************************************************)
(* parsing.get_delivery_features                                           *)
(***************************************************************************)
DeliveryKey(fo) == "delivery_" \o fo
DeliveryKeys == {DeliveryKey(fo) : fo \in FO_SET}

\* pd.notna(time) and time > 0
ValidTime(time) == time.t = "int" /\ time.v > 0

RECURSIVE SumOf(_, _)
SumOf(f, S) ==
    IF S = {} THEN 0
    ELSE LET x == CHOOSE y \in S : TRUE IN f[x].v + SumOf(f, S \ {x})

\* int(np.mean(valid_times))
MeanOverAllRegions(times, valid) == SumOf(times, valid) \div Len(FO_LIST)
MeanOfValid(times, valid) == SumOf(times, valid) \div Cardinality(valid)

DeliveryDefaults ==
    [k \in DeliveryKeys \cup {"avg_delivery_time"} |-> PyInt(0)]

get_delivery_features(http, df_matrix) ==
    IF ~df_matrix.frame THEN Ok(PyDict(DeliveryDefaults))
    ELSE LET delivery_times == get_delivery_times(http, df_matrix)
         IN  IF delivery_times.exc \in CAUGHT THEN Ok(PyDict(DeliveryDefaults))
             ELSE IF delivery_times.exc # "none" THEN delivery_times
             ELSE LET times == delivery_times.val
                      valid == {fo \in FO_SET : ValidTime(times[fo])}
                  IN  Ok(PyDict(
                        [k \in DeliveryKeys \cup {"avg_delivery_time"} |->
                            IF k = "avg_delivery_time"
                            THEN IF valid = {} THEN PyInt(0)
                                 ELSE PyInt(MeanOfValid(times, valid))
                            ELSE LET fo == CHOOSE r \in FO_SET : DeliveryKey(r) = k
                                 IN  IF fo \in valid THEN times[fo] ELSE PyInt(0)]))

(***************************************************************************)
(* Inputs of the delivery specification                                    *)
(***************************************************************************)
MaxDur == 3
NearRegions == 3

\* a row's durations: one value to the first NearRegions regions of FO_LIST,
\* another to the rest
DurationsOf(a, b) ==
    [fo \in FO_SET |->
        IF \E i \in 1..NearRegions : i \in DOMAIN FO_LIST /\ FO_LIST[i] = fo
        THEN a ELSE b]
Durations == {DurationsOf(a, b) : a \in 0..MaxDur, b \in 0..MaxDur}

\* the matrix holds at most one row per warehouse
MatrixNames == <<"A", "B", "Podolsk">>
RowChoice == UNION {[K -> Durations] : K \in SUBSET DOMAIN MatrixNames}
RECURSIVE MatrixRowsFrom(_, _)
MatrixRowsFrom(c, i) ==
    IF i > Len(MatrixNames) THEN <<>>
    ELSE (IF i \in DOMAIN c THEN <<[Sklad |-> MatrixNames[i], dur |-> c[i]]>> ELSE <<>>)
         \o MatrixRowsFrom(c, i + 1)
MatrixRows(c) == MatrixRowsFrom(c, 1)

Matrix ==
    {[frame |-> TRUE, cols |-> TRUE, rows |-> MatrixRows(c)] : c \in RowChoice}
    \cup {[frame |-> TRUE, cols |-> FALSE, rows |-> <<>>],
          [frame |-> FALSE, cols |-> FALSE, rows |-> <<>>]}

WarehouseJson(names) == PyList([i \in DOMAIN names |-> PyDict([name |-> PyStr(names[i])])])
WarehouseHttp ==
    {HttpFail, HttpOk(EmptyList),
     HttpOk(WarehouseJson(<<"A">>)), HttpOk(WarehouseJson(<<"A", "B", "A">>)),
     HttpOk(PyList(<<PyDict([name |-> PyNone]), PyDict([quantity |-> PyInt(1)])>>)),
     HttpOk(PyList(<<PyStr("x")>>))}

DlInit ==
    /\ dl_http \in WarehouseHttp
    /\ dl_matrix \in Matrix
    /\ dl_ret = NotCalled
    /\ GeoIdle /\ PvIdle /\ PrIdle /\ PdIdle /\ ExIdle /\ PfIdle /\ FtIdle /\ RcIdle /\ SvIdle /\ DsIdle

DlCall ==
    /\ dl_ret = NotCalled
    /\ dl_ret' = get_delivery_features(dl_http, dl_matrix)
    /\ UNCHANGED <<dl_http, dl_matrix, geo_vars, pv_vars, pr_vars, pd_vars, ex_vars,
                   pf_vars, ft_vars, rc_vars, sv_vars, ds_vars>>

SpecDelivery == DlInit /\ [][DlCall]_vars

(***************************************************************************)
(* Delivery claims                                                         *)
(***************************************************************************)
DeliveryOf(fo) == dl_ret.val.v[DeliveryKey(fo)].v
AvgDelivery == dl_ret.val.v["avg_delivery_time"].v
OwnWarehouses == get_all_warehouses_for_product(dl_http).names
DeliveryReturned == dl_ret # NotCalled /\ dl_ret.exc = "none"

RECURSIVE SumDelivery(_)
SumDelivery(S) ==
    IF S = {} THEN 0
    ELSE LET fo == CHOOSE r \in S : TRUE IN DeliveryOf(fo) + SumDelivery(S \ {fo})

ClaimedWarehouses ==
    IF \E i \in DOMAIN dl_matrix.rows : dl_matrix.rows[i].Sklad \in OwnWarehouses
    THEN OwnWarehouses
    ELSE {"Podolsk", "Koledino", "Elektrostal", "Kazan"}

ClaimedDurations(fo) ==
    {dl_matrix.rows[i].dur[fo] :
        i \in {j \in DOMAIN dl_matrix.rows : dl_matrix.rows[j].Sklad \in ClaimedWarehouses}}
    \cap {x \in 0..(MaxDur + 1) : x > 1}

\* C10: delivery_<region> is the least duration above 1 of that region over
\* the matrix rows of the resolved warehouse set, 0 if there is none.
C10_DeliveryMin ==
    DeliveryReturned =>
        \A fo \in FO_SET :
            /\ ClaimedDurations(fo) = {} => DeliveryOf(fo) = 0
            /\ ClaimedDurations(fo) # {} =>
                  /\ DeliveryOf(fo) \in ClaimedDurations(fo)
                  /\ \A x \in ClaimedDurations(fo) : DeliveryOf(fo) <= x

\* two own rows, the smaller duration unmeasured (1), the larger one taken
C10_Witness ==
    /\ DeliveryReturned
    /\ OwnWarehouses = {"A", "B"}
    /\ Len(dl_matrix.rows) = 3
    /\ dl_matrix.rows[1].dur["YUFO"] = 1
    /\ dl_matrix.rows[2].dur["YUFO"] = 3
    /\ dl_matrix.rows[3].dur["YUFO"] = 2
    /\ DeliveryOf("YUFO") = 3

(***************************************************************************)
(* wildbox_client: product, brand and position fetches                     *)
(***************************************************************************)
\* results = response.json().get('results', []); results[0] if results else {}
FirstResult(http) ==
    IF ~http.ok THEN Ok(EmptyDict)
    ELSE IF http.body.t # "dict" THEN Raise("AttributeError")
    ELSE LET results == DictGet(http.body, "results", EmptyList)
         IN  IF ~Truthy(results) THEN Ok(EmptyDict)
             ELSE IF results.t # "list" THEN Raise("TypeError")
             ELSE Ok(results.v[1])

get_product_details(http) == FirstResult(http)
get_brand_details(http) == FirstResult(http)

\* 403/404, a failed request and a body that is not JSON are request failures
get_warehouse_positions(http) ==
    IF ~http.ok THEN EmptyList
    ELSE IF http.body.t = "dict" /\ Truthy(DictGet(http.body, "detail", PyNone))
    THEN EmptyList
    ELSE http.body

(***************************************************************************)
(* parsing.get_position_features                                           *)
(***************************************************************************)
PositionDefaultsZeroAverage ==
    [avg_position |-> PyInt(0), expected_position |-> PyNone,
     positions_count |-> PyInt(0), positions_found |-> PyInt(0),
     first_valid_position |-> PyNone]
PositionDefaults ==
    [avg_position |-> PyNone, expected_position |-> PyNone,
     positions_count |-> PyInt(0), positions_found |-> PyInt(0),
     first_valid_position |-> PyNone]

\* the loop over positions: the valid values in input order, and the value of
\* the last record that carries an explicit expected_position
RECURSIVE PositionLoop(_, _, _, _)
PositionLoop(positions, i, valid_positions, expected) ==
    IF i > Len(positions) THEN [valid |-> valid_positions, expected |-> expected]
    ELSE IF positions[i].t # "dict"
    THEN PositionLoop(positions, i + 1, valid_positions, expected)
    ELSE LET pos_num == extract_position_value(positions[i]).val
         IN  IF pos_num = PyNone
             THEN PositionLoop(positions, i + 1, valid_positions, expected)
             ELSE PositionLoop(positions, i + 1, Append(valid_positions, pos_num),
                    IF DictGet(positions[i], "expected_position", PyNone) # PyNone
                    THEN pos_num ELSE expected)

RECURSIVE SumHundredths(_, _)
SumHundredths(q, i) == IF i > Len(q) THEN 0 ELSE q[i].v + SumHundredths(q, i + 1)

MeanTruncated(valid_positions) ==
    PyFloat(10 * (SumHundredths(valid_positions, 1) \div (10 * Len(valid_positions))))
\* round(np.mean(valid_positions), 1)
MeanRounded(valid_positions) ==
    PyFloat(10 * RoundHalfEven(SumHundredths(valid_positions, 1), 10 * Len(valid_positions)))

get_position_features(search_query, http) ==
    IF ~Truthy(search_query) \/ search_query.t # "str" THEN Ok(PyDict(PositionDefaults))
    ELSE LET positions == get_warehouse_positions(http)
         IN  IF ~Truthy(positions) \/ positions.t # "list"
             THEN Ok(PyDict(PositionDefaults))
             ELSE LET loop == PositionLoop(positions.v, 1, <<>>, PyNone)
                      avg == IF loop.valid = <<>> THEN PyNone ELSE MeanRounded(loop.valid)
                  IN  Ok(PyDict(
                        [avg_position |-> avg,
                         expected_position |->
                            IF loop.valid # <<>> /\ loop.expected = PyNone
                            THEN avg ELSE loop.expected,
                         positions_count |-> PyInt(Len(loop.valid)),
                         positions_found |-> PyInt(Len(positions.v)),
                         first_valid_position |->
                            IF loop.valid = <<>> THEN PyNone ELSE loop.valid[1]]))

(***************************************************************************)
(* parsing.extract_product_features                                        *)
(***************************************************************************)
\* features.update(d)
UpdateReplacing(f, d) == d
Update(f, d) ==
    [k \in DOMAIN f \cup DOMAIN d |-> IF k \in DOMAIN d THEN d[k] ELSE f[k]]

NOT_DETERMINED == "Ne opredelen"

InitialFeatures(product_id, search_query) ==
    [product_id |-> product_id, query |-> search_query,
     orders |-> PyInt(0), revenue |-> PyInt(0), price |-> PyInt(0),
     discount |-> PyInt(0), old_price |-> PyInt(0), rating |-> PyInt(0),
     in_stock_percent |-> PyInt(0), has_promos |-> PyInt(0),
     brand_rating |-> PyInt(0), brand_reviews |-> PyInt(0),
     reviews_last_day |-> PyInt(0), promo_days |-> PyInt(0),
     sum_views |-> PyInt(0), avg_visibility |-> PyInt(0),
     main_warehouse |-> PyStr(NOT_DETERMINED),
     avg_position |-> PyNone, expected_position |-> PyNone,
     positions_count |-> PyInt(0), positions_found |-> PyInt(0),
     first_valid_position |-> PyNone, loyalty_level |-> PyStr(NO_DATA)]

\* sum(day.get('visibility', 0) for day in dynamic_data if isinstance(day, Dict))
RECURSIVE SumViews(_, _)
SumViews(days, i) ==
    IF i > Len(days) THEN [exc |-> "none", n |-> 0]
    ELSE LET rest == SumViews(days, i + 1)
             v == IF days[i].t = "dict" THEN DictGet(days[i], "visibility", PyInt(0))
                  ELSE PyInt(0)
         IN  IF v.t # "int" THEN [exc |-> "TypeError", n |-> 0]
             ELSE IF rest.exc # "none" THEN rest
             ELSE [exc |-> "none", n |-> v.v + rest.n]

\* the statements after features.update(process_promos(...)) of the first try
BrandAndViews(f, product_data, brand_http) ==
    LET use_brand == DictGet(product_data, "brand", PyNone).t = "dict"
        brand_data == IF use_brand THEN get_brand_details(brand_http) ELSE Ok(EmptyDict)
        calls == IF use_brand THEN <<[fn |-> "get_brand_details", http |-> brand_http]>>
                 ELSE <<>>
    IN  IF brand_data.exc # "none" THEN [exc |-> brand_data.exc, f |-> f, calls |-> calls]
        ELSE IF Truthy(brand_data.val) /\ brand_data.val.t # "dict"
        THEN [exc |-> "AttributeError", f |-> f, calls |-> calls]
        ELSE LET f3 == IF Truthy(brand_data.val)
                       THEN Update(f, [brand_rating |-> DictGet(brand_data.val, "rating", PyInt(0)),
                                       brand_reviews |-> DictGet(brand_data.val, "reviews", PyInt(0))])
                       ELSE f
                 dynamic_data == DictGet(product_data, "dynamic", EmptyList)
             IN  IF ~Truthy(dynamic_data) THEN [exc |-> "none", f |-> f3, calls |-> calls]
                 ELSE IF dynamic_data.t # "list"
                 THEN [exc |-> "TypeError", f |-> f3, calls |-> calls]
                 ELSE LET views == SumViews(dynamic_data.v, 1)
                      IN  IF views.exc # "none"
                          THEN [exc |-> views.exc, f |-> f3, calls |-> calls]
                          ELSE [exc |-> "none", calls |-> calls,
                                f |-> Update(f3, [sum_views |-> PyInt(views.n)])]

\* the first try block: the features it leaves and the exception that ends it
ProductBlock(f, product_http, brand_http) ==
    LET product_data == get_product_details(product_http)
    IN  IF product_data.exc # "none" THEN [exc |-> product_data.exc, f |-> f, calls |-> <<>>]
        ELSE IF ~Truthy(product_data.val) THEN [exc |-> "none", f |-> f, calls |-> <<>>]
        ELSE LET r1 == process_product_data(product_data.val)
             IN  IF r1.exc # "none" THEN [exc |-> r1.exc, f |-> f, calls |-> <<>>]
                 ELSE LET f1 == Update(f, r1.val.v)
                          r2 == process_promos(DictGet(product_data.val, "promos", EmptyList))
                      IN  IF r2.exc # "none" THEN [exc |-> r2.exc, f |-> f1, calls |-> <<>>]
                          ELSE BrandAndViews(Update(f1, r2.val.v), product_data.val, brand_http)

(***************************************************************************)
(* Inputs of the extraction specification: a few responses of each kind    *)
(***************************************************************************)
ProductSample ==
    {PyDict([orders |-> PyInt(10), proceeds |-> PyInt(500000), price |-> PyInt(100),
             discount |-> PyInt(20), old_price |-> PyInt(125), rating |-> PyFloat(430),
             feedbacks |-> PyInt(5),
             promos |-> PyList(<<PyDict([start_date |-> IsoText(1, 0),
                                         end_date |-> IsoText(2, 0)])>>),
             dynamic |-> PyList(<<PyDict([visibility |-> PyInt(100)]), PyStr("x")>>),
             brand |-> PyDict([id |-> PyInt(1)])]),
     PyDict([orders |-> PyInt(1), brand |-> PyDict([id |-> PyInt(1)])]),
     PyDict([proceeds |-> PyNone]),
     PyDict([orders |-> PyInt(1), promos |-> PyNone]),
     PyDict([orders |-> PyInt(1),
             promos |-> PyList(<<PyDict([start_date |-> PyNone,
                                         end_date |-> IsoText(1, 0)])>>)]),
     PyDict([orders |-> PyInt(1), brand |-> PyStr("x"),
             dynamic |-> PyList(<<PyDict([visibility |-> PyNone])>>)]),
     PyList(<<PyInt(1)>>)}

ProductHttp ==
    {HttpFail, HttpOk(PyDict([results |-> EmptyList])), HttpOk(PyList(<<PyInt(1)>>))}
    \cup {HttpOk(PyDict([results |-> PyList(<<p>>)])) : p \in ProductSample}

BrandHttp ==
    {HttpFail,
     HttpOk(PyDict([results |-> PyList(<<PyDict([rating |-> PyInt(4),
                                                 reviews |-> PyInt(200)])>>)])),
     HttpOk(PyDict([results |-> PyList(<<PyList(<<PyInt(1)>>)>>)]))}

GeoHttpSample ==
    {HttpFail, HttpOk(EmptyDict),
     HttpOk(PyDict([results |-> PyList(<<PyDict([availability |->
                PyList(<<PyDict([is_availability |-> PyBool(TRUE)])>>)])>>)])),
     HttpOk(PyDict([results |-> PyList(<<PyStr("x")>>)]))}

PositionsHttp ==
    {HttpFail, HttpOk(EmptyList), HttpOk(PyDict([detail |-> PyStr("Not found")])),
     HttpOk(PyDict([count |-> PyInt(1)])),
     HttpOk(PyList(<<PyDict([position |-> PyText(<<"-", "3">>)])>>)),
     HttpOk(PyList(<<PyDict([expected_position |-> PyInt(10)]),
                     PyDict([position |-> PyText(<<"3", "0">>)]),
                     PyDict([position |-> PyNone]),
                     PyStr("x")>>))}

MatrixSample ==
    {[frame |-> FALSE, cols |-> FALSE, rows |-> <<>>],
     [frame |-> TRUE, cols |-> FALSE, rows |-> <<>>],
     [frame |-> TRUE, cols |-> TRUE, rows |-> <<>>],
     [frame |-> TRUE, cols |-> TRUE,
      rows |-> <<[Sklad |-> "A", dur |-> DurationsOf(1, 0)],
                 [Sklad |-> "Podolsk", dur |-> DurationsOf(1, 0)]>>],
     [frame |-> TRUE, cols |-> TRUE,
      rows |-> <<[Sklad |-> "A", dur |-> DurationsOf(2, 3)],
                 [Sklad |-> "Podolsk", dur |-> DurationsOf(3, 0)],
                 [Sklad |-> "Kazan", dur |-> DurationsOf(2, 1)]>>]}

QuerySample == {PyStr("q"), PyStr("")}

(***************************************************************************)
(* extract_product_features, one step per collaborator                     *)
(***************************************************************************)
ExInit ==
    /\ ex_pc = "product"
    /\ ex_query \in QuerySample
    /\ ex_matrix \in MatrixSample
    /\ features = InitialFeatures(PyInt(101), ex_query)
    /\ ex_raised = "none"
    /\ ex_calls = <<>>
    /\ GeoIdle /\ PvIdle /\ PrIdle /\ PdIdle /\ DlIdle /\ PfIdle /\ FtIdle /\ RcIdle /\ SvIdle /\ DsIdle

\* an exception of a caught class is logged and the function goes on;
\* any other leaves extract_product_features
Continue(exc, next) ==
    IF exc \in CAUGHT \cup {"none"}
    THEN ex_pc' = next /\ ex_raised' = "none"
    ELSE ex_pc' = "raised" /\ ex_raised' = exc

ExProduct ==
    /\ ex_pc = "product"
    /\ \E product_http \in ProductHttp, brand_http \in BrandHttp :
          LET r == ProductBlock(features, product_http, brand_http)
          IN  /\ features' = r.f
              /\ ex_calls' = ex_calls
                    \o <<[fn |-> "get_product_details", http |-> product_http]>> \o r.calls
              /\ Continue(r.exc, "geo")
    /\ UNCHANGED <<ex_query, ex_matrix, geo_vars, pv_vars, pr_vars, pd_vars, dl_vars,
                   pf_vars, ft_vars, rc_vars, sv_vars, ds_vars>>

ExGeo ==
    /\ ex_pc = "geo"
    /\ \E http \in GeoHttpSample :
          LET r == get_average_geo_visibility(http)
          IN  /\ features' = IF r.exc = "none"
                             THEN Update(features, [avg_visibility |-> r.val])
                             ELSE features
              /\ ex_calls' = Append(ex_calls,
                                    [fn |-> "get_product_geo_visibility", http |-> http])
              /\ Continue(r.exc, "delivery")
    /\ UNCHANGED <<ex_query, ex_matrix, geo_vars, pv_vars, pr_vars, pd_vars, dl_vars,
                   pf_vars, ft_vars, rc_vars, sv_vars, ds_vars>>

ExDelivery ==
    /\ ex_pc = "delivery"
    /\ \E http \in WarehouseHttp :
          LET r == get_delivery_features(http, ex_matrix)
          IN  /\ features' = IF r.exc = "none" THEN Update(features, r.val.v)
                             ELSE features
              /\ ex_calls' = IF ex_matrix.frame
                              THEN Append(ex_calls,
                                     [fn |-> "get_all_warehouses_for_product", http |-> http])
                              ELSE ex_calls
              /\ Continue(r.exc, "warehouses")
    /\ UNCHANGED <<ex_query, ex_matrix, geo_vars, pv_vars, pr_vars, pd_vars, dl_vars,
                   pf_vars, ft_vars, rc_vars, sv_vars, ds_vars>>

\* warehouses[0] is whichever name the set's iteration yields first
ExWarehouses ==
    /\ ex_pc = "warehouses"
    /\ \E http \in WarehouseHttp :
          LET warehouses == get_all_warehouses_for_product(http)
          IN  /\ IF warehouses.exc = "none" /\ warehouses.names # {}
                 THEN \E first \in warehouses.names :
                        features' = Update(features, [main_warehouse |-> PyStr(first)])
                 ELSE features' = features
              /\ ex_calls' = Append(ex_calls,
                                [fn |-> "get_all_warehouses_for_product", http |-> http])
              /\ Continue(warehouses.exc, "positions")
    /\ UNCHANGED <<ex_query, ex_matrix, geo_vars, pv_vars, pr_vars, pd_vars, dl_vars,
                   pf_vars, ft_vars, rc_vars, sv_vars, ds_vars>>

ExPositions ==
    /\ ex_pc = "positions"
    /\ \E http \in PositionsHttp :
          LET r == get_position_features(ex_query, http)
          IN  /\ features' = Update(features, r.val.v)
              /\ ex_calls' = IF Truthy(ex_query)
                              THEN Append(ex_calls,
                                     [fn |-> "get_warehouse_positions", http |-> http])
                              ELSE ex_calls
              /\ Continue(r.exc, "done")
    /\ UNCHANGED <<ex_query, ex_matrix, geo_vars, pv_vars, pr_vars, pd_vars, dl_vars,
                   pf_vars, ft_vars, rc_vars, sv_vars, ds_vars>>

Next == ExProduct \/ ExGeo \/ ExDelivery \/ ExWarehouses \/ ExPositions

Spec == ExInit /\ [][Next]_vars

(***************************************************************************)
(* Properties of extract_product_features                                  *)
(***************************************************************************)
Returned == ex_pc = "done"

\* C1: whatever the collaborators answer, no exception leaves
\* extract_product_features.
C1_NeverRaises == ex_pc # "raised"

\* a call that failed, or whose answer carries nothing
EmptyAnswer(call) ==
    \/ ~call.http.ok
    \/ call.http.body \in {EmptyDict, EmptyList, PyDict([results |-> EmptyList])}

AllCallsEmpty == \A i \in DOMAIN ex_calls : EmptyAnswer(ex_calls[i])

NonDeliveryDefaults ==
    [product_id |-> PyInt(101), query |-> ex_query,
     orders |-> PyInt(0), revenue |-> PyInt(0), price |-> PyInt(0),
     discount |-> PyInt(0), old_price |-> PyInt(0), rating |-> PyInt(0),
     in_stock_percent |-> PyInt(0), has_promos |-> PyInt(0),
     brand_rating |-> PyInt(0), brand_reviews |-> PyInt(0),
     reviews_last_day |-> PyInt(0), promo_days |-> PyInt(0),
     sum_views |-> PyInt(0), avg_visibility |-> PyInt(0),
     main_warehouse |-> PyStr("Ne opredelen"),
     avg_position |-> PyNone, expected_position |-> PyNone,
     positions_count |-> PyInt(0), positions_found |-> PyInt(0),
     first_valid_position |-> PyNone, loyalty_level |-> PyStr("Net dannyh")]

RegionFields ==
    {"delivery_YUFO", "delivery_PFO", "delivery_UFO", "delivery_DFO",
     "delivery_SFO", "delivery_SZFO", "delivery_CFO"}

\* C2 as stated: when every collaborator call fails or answers empty, the
\* record returned holds every default, each delivery_<region> and
\* avg_delivery_time being 0, and nothing is raised.
C2_AllDefaults ==
    AllCallsEmpty =>
        /\ ex_pc # "raised"
        /\ Returned =>
              /\ \A k \in DOMAIN NonDeliveryDefaults : features[k] = NonDeliveryDefaults[k]
              /\ \A k \in RegionFields \cup {"avg_delivery_time"} : features[k] = PyInt(0)

\* the measured durations of a region in the matrix rows of the default
\* warehouse list
FallbackDurations(fo) ==
    {ex_matrix.rows[i].dur[fo] :
        i \in {j \in DOMAIN ex_matrix.rows :
                  /\ ex_matrix.rows[j].Sklad \in {"Podolsk", "Koledino", "Elektrostal", "Kazan"}
                  /\ ex_matrix.rows[j].dur[fo] > 1}}

LeastOf(S) == CHOOSE x \in S : \A y \in S : x <= y

FallbackDelivery(fo) ==
    IF FallbackDurations(fo) = {} THEN 0 ELSE LeastOf(FallbackDurations(fo))

RECURSIVE SumFallback(_)
SumFallback(S) ==
    IF S = {} THEN 0
    ELSE LET fo == CHOOSE r \in S : TRUE IN FallbackDelivery(fo) + SumFallback(S \ {fo})

FallbackAverage ==
    LET populated == {fo \in FO_SET : FallbackDelivery(fo) > 0}
    IN  IF populated = {} THEN 0 ELSE SumFallback(populated) \div Cardinality(populated)

\* C2, amended: when every collaborator call fails or answers empty, nothing
\* is raised and the record returned holds the default of every field other
\* than the delivery ones; each delivery_<region> is the least duration above
\* 1 of that region over the matrix rows of the default warehouse list (0 if
\* there is none), and avg_delivery_time the truncated mean of the non-zero
\* ones (0 if there is none).
C2_DefaultsWithFallbackDelivery ==
    AllCallsEmpty =>
        /\ ex_pc # "raised"
        /\ Returned =>
              /\ \A k \in DOMAIN NonDeliveryDefaults : features[k] = NonDeliveryDefaults[k]
              /\ \A fo \in FO_SET :
                    features["delivery_" \o fo] = PyInt(FallbackDelivery(fo))
              /\ features["avg_delivery_time"] = PyInt(FallbackAverage)

\* all five calls made and failed, the matrix holding rows of the default list
C2_Witness ==
    /\ Returned
    /\ Len(ex_calls) = 5
    /\ AllCallsEmpty
    /\ features["delivery_YUFO"] = PyInt(2)
    /\ features["delivery_CFO"] = PyInt(0)
    /\ features["avg_delivery_time"] = PyInt(2)

FeatureFields ==
    {"product_id", "query", "orders", "revenue", "price", "discount", "old_price",
     "rating", "in_stock_percent", "reviews_last_day", "loyalty_level",
     "has_promos", "promo_days", "brand_rating", "brand_reviews", "sum_views",
     "avg_visibility", "main_warehouse", "avg_delivery_time",
     "avg_position", "expected_position", "positions_count", "positions_found",
     "first_valid_position"} \cup RegionFields

\* C3: every record returned has exactly the fixed set of fields, whichever
\* collaborator calls succeed or fail.
C3_FixedFields == Returned => DOMAIN features = FeatureFields

\* a record returned after the product fetch succeeded, the geo fetch
\* failed and the matrix was not a frame
C3_Witness ==
    /\ Returned
    /\ features["orders"] = PyInt(10)
    /\ features["brand_reviews"] = PyInt(200)
    /\ ~ex_calls[Len(ex_calls)].http.ok
    /\ ~ex_matrix.frame
    /\ \E i \in DOMAIN ex_calls :
          ex_calls[i].fn = "get_product_geo_visibility" /\ ~ex_calls[i].http.ok

(***************************************************************************)
(* Specification of get_position_features on its own                       *)
(***************************************************************************)
MaxPositions == 3

PfRecord ==
    {PyDict([expected_position |-> PyInt(5)]),
     PyDict([expected_position |-> PyInt(30)]),
     PyDict([position |-> PyInt(30)]),
     PyDict([position |-> PyText(<<"2", ".", "5">>)]),
     PyDict([expected_position |-> PyNone, position |-> PyInt(5)]),
     PyDict([expected_position |-> PyText(<<"a">>), position |-> PyInt(30)]),
     PyDict([position |-> PyNone]),
     PyDict([position |-> PyFloat(4)]),
     PyDict([position |-> PyInt(0)]),
     EmptyDict,
     PyStr("x")}

PfHttp ==
    {HttpFail, HttpOk(PyDict([detail |-> PyStr("Not found")])),
     HttpOk(PyDict([count |-> PyInt(1)])), HttpOk(PyInt(7)), HttpOk(PyNone)}
    \cup {HttpOk(PyList(q)) : q \in SeqsUpTo(PfRecord, MaxPositions)}

PfInit ==
    /\ pf_query \in {PyStr("q"), PyStr(""), PyNone, PyInt(5)}
    /\ pf_http \in PfHttp
    /\ pf_ret = NotCalled
    /\ GeoIdle /\ PvIdle /\ PrIdle /\ PdIdle /\ DlIdle /\ ExIdle
    /\ FtIdle /\ RcIdle /\ SvIdle /\ DsIdle

PfCall ==
    /\ pf_ret = NotCalled
    /\ pf_ret' = get_position_features(pf_query, pf_http)
    /\ UNCHANGED <<pf_query, pf_http, geo_vars, pv_vars, pr_vars, pd_vars, dl_vars,
                   ex_vars, ft_vars, rc_vars, sv_vars, ds_vars>>

SpecPositions == PfInit /\ [][PfCall]_vars

(***************************************************************************)
(* Position-feature claims                                                 *)
(***************************************************************************)
\* the call went through to a list of records
PfListed ==
    /\ pf_ret # NotCalled
    /\ pf_query = PyStr("q")
    /\ pf_http.ok
    /\ pf_http.body.t = "list"

Received == pf_http.body.v

\* the value extract_position_value yields from the i-th record received
Yielded(i) ==
    IF Received[i].t = "dict" THEN extract_position_value(Received[i]).val ELSE PyNone

YieldingIdx == {i \in DOMAIN Received : Yielded(i) # PyNone}

FirstOf(S) == CHOOSE i \in S : \A j \in S : i <= j

RECURSIVE SumYielded(_)
SumYielded(S) ==
    IF S = {} THEN 0
    ELSE LET i == CHOOSE j \in S : TRUE IN Yielded(i).v + SumYielded(S \ {i})

PfField(k) == pf_ret.val.v[k]

\* C11: positions_found is the number of records received, positions_count
\* the number of records yielding a value, first_valid_position the first
\* such value in input order, and avg_position their mean rounded to one
\* decimal place (a whole number of tenths nearest to the exact mean).
C11_PositionCounts ==
    PfListed =>
        /\ pf_ret.exc = "none"
        /\ PfField("positions_found") = PyInt(Len(Received))
        /\ PfField("positions_count") = PyInt(Cardinality(YieldingIdx))
        /\ PfField("first_valid_position") =
              (IF YieldingIdx = {} THEN PyNone ELSE Yielded(FirstOf(YieldingIdx)))
        /\ IF YieldingIdx = {} THEN PfField("avg_position") = PyNone
           ELSE LET n == Cardinality(YieldingIdx)
                    avg == PfField("avg_position")
                    d == avg.v * n - SumYielded(YieldingIdx)
                IN  /\ avg.t = "float"
                    /\ avg.v % 10 = 0
                    /\ d <= 5 * n /\ -d <= 5 * n

\* three records received, two of them valid (5 and 2.5), mean 3.75
C11_Witness ==
    /\ PfListed
    /\ PfField("positions_found") = PyInt(3)
    /\ PfField("positions_count") = PyInt(2)
    /\ PfField("first_valid_position") = PyFloat(500)
    /\ PfField("avg_position") = PyFloat(380)

\* records whose raw expected_position key is present and non-null
ExplicitIdx ==
    {i \in DOMAIN Received :
        /\ Received[i].t = "dict"
        /\ DictGet(Received[i], "expected_position", PyNone) # PyNone}

\* C12: expected_position is the value of the first record, in input order,
\* that carries an explicit non-null expected_position; later such records do
\* not change it; without any such record it is avg_position.
C12_ExpectedFromFirst ==
    PfListed =>
        PfField("expected_position") =
            (IF ExplicitIdx = {} THEN PfField("avg_position")
             ELSE Yielded(FirstOf(ExplicitIdx)))

(***************************************************************************)
(* ml_model/recomendation.py: the recommendation script.                   *)
(* Numbers are held in hundredths (a rating of 4.5 is 450).                *)
(***************************************************************************)
\* a bound is <<>> for None and <<b>> for the number b
TUNABLE_FEATURES ==
    <<[feature |-> "Cena", delta |-> -10000, min |-> <<0>>, max |-> <<>>],
      [feature |-> "Skidka", delta |-> 500, min |-> <<0>>, max |-> <<7000>>],
      [feature |-> "Rejting", delta |-> 10, min |-> <<0>>, max |-> <<500>>],
      [feature |-> "Nalichie", delta |-> 500, min |-> <<0>>, max |-> <<10000>>],
      [feature |-> "Dnej_v_akcijah", delta |-> 500, min |-> <<0>>, max |-> <<3100>>],
      [feature |-> "Srednjaja_vidimost", delta |-> 5, min |-> <<0>>, max |-> <<100>>],
      [feature |-> "Kolichestvo_otzyvov", delta |-> 1000, min |-> <<0>>, max |-> <<>>],
      [feature |-> "Sr_vremja_dostavki", delta |-> -100, min |-> <<2000>>, max |-> <<>>],
      [feature |-> "Dostavka_YUFO", delta |-> -200, min |-> <<2000>>, max |-> <<>>],
      [feature |-> "Dostavka_PFO", delta |-> -200, min |-> <<2000>>, max |-> <<>>],
      [feature |-> "Dostavka_CFO", delta |-> -200, min |-> <<2000>>, max |-> <<>>]>>

TunableNames == {TUNABLE_FEATURES[i].feature : i \in DOMAIN TUNABLE_FEATURES}

\* if len(df) != 1: ... exit()
AtLeastOneRow(rows) == Len(rows) >= 1
ExactlyOneRow(rows) == Len(rows) = 1

\* the clamping of new_value to params["min"] and params["max"]
Unclamped(new_value, params) == new_value
Clamped(new_value, params) ==
    LET low == IF params.min # <<>> /\ new_value < params.min[1]
               THEN params.min[1] ELSE new_value
    IN  IF params.max # <<>> /\ low > params.max[1] THEN params.max[1] ELSE low

\* if improvement > 0
ImprovesOrEqual(improvement) == improvement >= 0
Improves(improvement) == improvement > 0

\* df_copy.at[0, feature] = original
NotRestored(copy, feature, original) == copy
Restored(copy, feature, original) == [copy EXCEPT ![feature] = original]

\* key=lambda x: -x["improvement"], as its negation
SortKeyTruncated(rec) == rec.improvement \div 100
SortKey(rec) == rec.improvement

\* list.sort is stable: rec goes behind every element whose key is not smaller
InsertSorted(sorted, rec) ==
    LET before == Cardinality({i \in DOMAIN sorted : SortKey(sorted[i]) >= SortKey(rec)})
    IN  SubSeq(sorted, 1, before) \o <<rec>> \o SubSeq(sorted, before + 1, Len(sorted))

RECURSIVE SortRecommendations(_, _, _)
SortRecommendations(recs, i, sorted) ==
    IF i > Len(recs) THEN sorted
    ELSE SortRecommendations(recs, i + 1, InsertSorted(sorted, recs[i]))

(***************************************************************************)
(* The predictor: a deterministic function of the record handed to it      *)
(***************************************************************************)
BasePosition == 50000

RECURSIVE SumGain(_)
SumGain(S) ==
    IF S = {} THEN 0
    ELSE LET f == CHOOSE x \in S : TRUE IN gain[f] + SumGain(S \ {f})

\* model.predict(Pool(record))[0]
Predict(record) ==
    BasePosition -
        SumGain({f \in TunableNames \cap DOMAIN record : record[f] # df[1][f]})

(***************************************************************************)
(* Inputs: the CSV rows and the predictor                                  *)
(***************************************************************************)
MaxRows == 2

BaseRow ==
    [Zakazy |-> 1000, Cena |-> 50000, Skidka |-> 2000, Rejting |-> 450,
     Nalichie |-> 9000, Dnej_v_akcijah |-> 1000, Srednjaja_vidimost |-> 50,
     Kolichestvo_otzyvov |-> 20000, Sr_vremja_dostavki |-> 9600,
     Dostavka_YUFO |-> 7200, Dostavka_PFO |-> 4800, Dostavka_UFO |-> 4800,
     Dostavka_CFO |-> 2400]

\* values already at the bound the step moves towards
AtBound ==
    [Cena |-> 0, Skidka |-> 7000, Rejting |-> 500, Nalichie |-> 10000,
     Dnej_v_akcijah |-> 3100, Srednjaja_vidimost |-> 100,
     Kolichestvo_otzyvov |-> -2000, Sr_vremja_dostavki |-> 2000,
     Dostavka_YUFO |-> 2000, Dostavka_PFO |-> 2000, Dostavka_CFO |-> 2000]

\* values less than a step away from the bound, or beyond it
NearBound ==
    [Cena |-> 5000, Skidka |-> 6800, Rejting |-> 495, Nalichie |-> 9800,
     Dnej_v_akcijah |-> 2900, Srednjaja_vidimost |-> 98,
     Kolichestvo_otzyvov |-> 0, Sr_vremja_dostavki |-> 2050,
     Dostavka_YUFO |-> 1000, Dostavka_PFO |-> 2100, Dostavka_CFO |-> 2100]

Without(row, feature) == [c \in DOMAIN row \ {feature} |-> row[c]]

Rows ==
    {BaseRow, [Zakazy |-> 1000],
     [Zakazy |-> 1000, Cena |-> 50000, Skidka |-> 2000, Rejting |-> 450],
     [c \in DOMAIN BaseRow |-> IF c \in TunableNames THEN AtBound[c] ELSE BaseRow[c]]}
    \cup {Without(BaseRow, f) : f \in TunableNames}
    \cup {[BaseRow EXCEPT ![f] = AtBound[f]] : f \in TunableNames}
    \cup {[BaseRow EXCEPT ![f] = NearBound[f]] : f \in TunableNames}
    \cup {[BaseRow EXCEPT !["Dostavka_YUFO"] = 0],
          [BaseRow EXCEPT !["Srednjaja_vidimost"] = 200]}

Frames == {<<r>> : r \in Rows} \cup {[i \in 1..n |-> BaseRow] : n \in 0..MaxRows}

Gains ==
    {[f \in TunableNames |-> d] : d \in {-500, 120, 40000}}
    \cup {[f \in TunableNames |-> IF f = s THEN g ELSE d] :
            d \in {-500, 120, 40000}, s \in TunableNames,
            g \in {-1000, 0, 120, 170, 20000}}

(***************************************************************************)
(* The script, statement by statement                                      *)
(***************************************************************************)
RcInit ==
    /\ df \in Frames
    /\ gain \in Gains
    /\ rc_pc = "check"
    /\ rc_i = 0
    /\ df_copy = <<>>
    /\ current_position = 0
    /\ recommendations = <<>>
    /\ rc_calls = <<>>
    /\ rc_out = <<>>
    /\ report = [primary |-> <<>>, worst |-> <<>>, top_3 |-> <<>>,
                 total_improvement |-> 0, verdict |-> ""]
    /\ GeoIdle /\ PvIdle /\ PrIdle /\ PdIdle /\ DlIdle /\ ExIdle
    /\ PfIdle /\ FtIdle /\ SvIdle /\ DsIdle

RcOthers == <<geo_vars, pv_vars, pr_vars, pd_vars, dl_vars, ex_vars,
              pf_vars, ft_vars, sv_vars, ds_vars>>

\* lines 63-65
RcCheck ==
    /\ rc_pc = "check"
    /\ IF ExactlyOneRow(df)
       THEN rc_pc' = "baseline" /\ rc_out' = rc_out
       ELSE rc_pc' = "exited" /\ rc_out' = Append(rc_out, "input_error")
    /\ UNCHANGED <<df, gain, rc_i, df_copy, current_position, recommendations,
                   rc_calls, report, RcOthers>>

\* lines 68-69
RcBaseline ==
    /\ rc_pc = "baseline"
    /\ current_position' = Predict(df[1])
    /\ rc_calls' = Append(rc_calls, [feature |-> "", record |-> df[1]])
    /\ rc_out' = Append(rc_out, "baseline")
    /\ rc_pc' = "analysis"
    /\ UNCHANGED <<df, gain, rc_i, df_copy, recommendations, report, RcOthers>>

\* lines 72-113
RcAnalysis ==
    /\ rc_pc = "analysis"
    /\ rc_out' = Append(rc_out, "analysis")
    /\ df_copy' = df[1]
    /\ recommendations' = <<>>
    /\ rc_i' = 1
    /\ rc_pc' = "sweep"
    /\ UNCHANGED <<df, gain, current_position, rc_calls, report, RcOthers>>

\* one iteration of the loop of lines 115-145
RcSweep ==
    /\ rc_pc = "sweep"
    /\ rc_i <= Len(TUNABLE_FEATURES)
    /\ LET params == TUNABLE_FEATURES[rc_i]
           feature == params.feature
       IN  IF feature \notin DOMAIN df[1]
           THEN UNCHANGED <<df_copy, recommendations, rc_calls>>
           ELSE LET original == df[1][feature]
                    new_value == Clamped(original + params.delta, params)
                    perturbed == [df_copy EXCEPT ![feature] = new_value]
                    new_pos == Predict(perturbed)
                    improvement == current_position - new_pos
                IN  IF new_value = original
                    THEN UNCHANGED <<df_copy, recommendations, rc_calls>>
                    ELSE /\ rc_calls' = Append(rc_calls,
                                           [feature |-> feature, record |-> perturbed])
                         /\ recommendations' =
                              IF Improves(improvement)
                              THEN Append(recommendations,
                                     [feature |-> feature, original |-> original,
                                      new |-> new_value, improvement |-> improvement])
                              ELSE recommendations
                         /\ df_copy' = Restored(perturbed, feature, original)
    /\ rc_i' = rc_i + 1
    /\ UNCHANGED <<df, gain, rc_pc, current_position, rc_out, report, RcOthers>>

\* q[:n]
Take(q, n) == SubSeq(q, 1, Min2(n, Len(q)))

\* lines 147-154
RcSort ==
    /\ rc_pc = "sweep"
    /\ rc_i > Len(TUNABLE_FEATURES)
    /\ recommendations' = SortRecommendations(recommendations, 1, <<>>)
    /\ report' = [report EXCEPT
                    !.primary = Take(SortRecommendations(recommendations, 1, <<>>), 5)]
    /\ rc_out' = Append(rc_out, "recommendations")
    /\ rc_pc' = "delivery"
    /\ UNCHANGED <<df, gain, rc_i, df_copy, current_position, rc_calls, RcOthers>>

\* the columns of the CSV header that concern delivery, in header order;
\* prefixed tells whether the name starts with "Dostavka_" and ends with
\* "(ch)", region is col.split("_")[1]
CSV_COLUMNS ==
    <<[col |-> "Dostavka_YUFO", prefixed |-> TRUE, region |-> "YUFO"],
      [col |-> "Dostavka_PFO", prefixed |-> TRUE, region |-> "PFO"],
      [col |-> "Dostavka_UFO", prefixed |-> TRUE, region |-> "UFO"],
      [col |-> "Dostavka_DFO", prefixed |-> TRUE, region |-> "DFO"],
      [col |-> "Dostavka_SFO", prefixed |-> TRUE, region |-> "SFO"],
      [col |-> "Dostavka_SZFO", prefixed |-> TRUE, region |-> "SZFO"],
      [col |-> "Dostavka_CFO", prefixed |-> TRUE, region |-> "CFO"],
      [col |-> "Sr_vremja_dostavki", prefixed |-> FALSE, region |-> ""]>>

\* delivery_cols
DeliveryColumns ==
    SelectSeq(CSV_COLUMNS, LAMBDA c : c.col \in DOMAIN df[1] /\ c.prefixed)

DeliveryCols == {DeliveryColumns[i].col : i \in DOMAIN DeliveryColumns}

\* regions.append((region, hours)) for col in delivery_cols
DeliveryRegions ==
    [i \in DOMAIN DeliveryColumns |->
        [region |-> DeliveryColumns[i].region, hours |-> df[1][DeliveryColumns[i].col]]]

\* key=lambda x: -x[1]
RegionKeyUnnegated(r) == r.hours
RegionKey(r) == -r.hours

\* list.sort is ascending in the key and stable
InsertRegion(sorted, r) ==
    LET before == Cardinality({i \in DOMAIN sorted : RegionKey(sorted[i]) <= RegionKey(r)})
    IN  SubSeq(sorted, 1, before) \o <<r>> \o SubSeq(sorted, before + 1, Len(sorted))

RECURSIVE SortRegions(_, _, _)
SortRegions(regions, i, sorted) ==
    IF i > Len(regions) THEN sorted
    ELSE SortRegions(regions, i + 1, InsertRegion(sorted, regions[i]))

\* lines 157-178
RcDelivery ==
    /\ rc_pc = "delivery"
    /\ IF DeliveryCols # {}
       THEN LET worst == SortRegions(DeliveryRegions, 1, <<>>)[1]
            IN  /\ rc_out' = Append(rc_out, "delivery_diagnosis")
                /\ report' = [report EXCEPT
                                !.worst = <<[region |-> worst.region,
                                             hours |-> worst.hours,
                                             target |-> worst.hours - 500]>>]
       ELSE UNCHANGED <<rc_out, report>>
    /\ rc_pc' = "summary"
    /\ UNCHANGED <<df, gain, rc_i, df_copy, current_position, recommendations,
                   rc_calls, RcOthers>>

RECURSIVE SumImprovement(_, _)
SumImprovement(recs, i) ==
    IF i > Len(recs) THEN 0 ELSE recs[i].improvement + SumImprovement(recs, i + 1)

\* if total_improvement >= 1000
SignificantStrict(total_improvement) == total_improvement > 100000
Significant(total_improvement) == total_improvement >= 100000

\* lines 181-203
RcSummary ==
    /\ rc_pc = "summary"
    /\ LET top_3 == Take(recommendations, 3)
           total_improvement == SumImprovement(top_3, 1)
       IN  report' = [report EXCEPT
                        !.top_3 = top_3,
                        !.total_improvement = total_improvement,
                        !.verdict = IF Significant(total_improvement)
                                    THEN "significant" ELSE "further_measures"]
    /\ rc_out' = Append(rc_out, "summary")
    /\ rc_pc' = "done"
    /\ UNCHANGED <<df, gain, rc_i, df_copy, current_position, recommendations,
                   rc_calls, RcOthers>>

RcNext ==
    RcCheck \/ RcBaseline \/ RcAnalysis \/ RcSweep \/ RcSort \/ RcDelivery \/ RcSummary

SpecRecommend == RcInit /\ [][RcNext]_vars

(***************************************************************************)
(* Recommendation-script claims                                            *)
(***************************************************************************)
\* C13: with zero records or more than one the script stops after reporting
\* the input error: no predictor call, no baseline, no recommendation, no
\* delivery diagnosis and no summary.
C13_StopsOnBadInput ==
    (Len(df) # 1 /\ rc_pc # "check") =>
        /\ rc_pc = "exited"
        /\ rc_calls = <<>>
        /\ rc_out = <<"input_error">>
        /\ recommendations = <<>>

\* the script stopped on an input of two records
C13_Witness == rc_pc = "exited" /\ Len(df) = 2 /\ rc_out = <<"input_error">>

\* the record with one feature set to a value
Perturbed(feature, value) == [df[1] EXCEPT ![feature] = value]

\* C14: every listed recommendation has improvement = baseline - prediction
\* with the change, and that improvement is > 0; a feature whose perturbation
\* does not lower the predicted rank is not listed.
C14_OnlyImprovements ==
    \A k \in DOMAIN recommendations :
        LET rec == recommendations[k]
            with_change == Predict(Perturbed(rec.feature, rec.new))
        IN  /\ rec.improvement = current_position - with_change
            /\ with_change < current_position

\* every feature was evaluated; the one whose change leaves the predicted
\* rank as it was is left out, the ten improving ones are listed
C14_Witness ==
    /\ rc_pc = "done"
    /\ Len(rc_calls) = 12
    /\ gain["Skidka"] = 0
    /\ Len(recommendations) = 10
    /\ \A k \in DOMAIN recommendations : recommendations[k].feature # "Skidka"

Declared(feature) ==
    CHOOSE i \in DOMAIN TUNABLE_FEATURES : TUNABLE_FEATURES[i].feature = feature

Sorted == rc_pc \in {"delivery", "summary", "done"}

\* C15: the list is in descending order of the full-precision improvement,
\* equal improvements in declaration order of the tunable features; the
\* order is thereby a function of the record and the predictor alone.
C15_RankedOrder ==
    Sorted =>
        \A i, j \in DOMAIN recommendations :
            i < j =>
                \/ recommendations[i].improvement > recommendations[j].improvement
                \/ /\ recommendations[i].improvement = recommendations[j].improvement
                   /\ Declared(recommendations[i].feature)
                        < Declared(recommendations[j].feature)

\* improvements 1.7 and 1.2 (both displayed as 1): the later-declared feature
\* with 1.7 is ranked first, the ten tied ones follow in declaration order
C15_Witness ==
    /\ Sorted
    /\ Len(recommendations) = 11
    /\ recommendations[1].feature = "Dostavka_CFO"
    /\ recommendations[1].improvement = 170
    /\ recommendations[2].feature = "Cena"
    /\ recommendations[2].improvement = 120

SweepOver == rc_pc \in {"delivery", "summary", "done"} \/ (rc_pc = "sweep" /\ rc_i > Len(TUNABLE_FEATURES))

ParamsOf(feature) == TUNABLE_FEATURES[Declared(feature)]

Least(a, b) == IF a <= b THEN a ELSE b
Greatest(a, b) == IF a >= b THEN a ELSE b

\* clamp(original + step, min_bound, max_bound), a missing bound unbounded
Candidate(feature) ==
    LET p == ParamsOf(feature)
        x == df[1][feature] + p.delta
        raised == IF p.min = <<>> THEN x ELSE Greatest(x, p.min[1])
    IN  IF p.max = <<>> THEN raised ELSE Least(raised, p.max[1])

Evaluated(feature) == \E k \in DOMAIN rc_calls : rc_calls[k].feature = feature
Listed(feature) == \E k \in DOMAIN recommendations : recommendations[k].feature = feature

\* C19: a tunable feature is evaluated with the value original + step clamped
\* to its bounds; it is skipped (no predictor call, no recommendation) if and
\* only if it is absent from the record or that value equals the original.
C19_CandidateClamped ==
    SweepOver =>
        \A f \in TunableNames :
            LET skipped == f \notin DOMAIN df[1] \/ Candidate(f) = df[1][f]
            IN  /\ skipped <=> ~Evaluated(f)
                /\ skipped => ~Listed(f)
                /\ \A k \in DOMAIN rc_calls :
                      rc_calls[k].feature = f => rc_calls[k].record[f] = Candidate(f)
                /\ \A k \in DOMAIN recommendations :
                      recommendations[k].feature = f =>
                          /\ recommendations[k].new = Candidate(f)
                          /\ recommendations[k].original = df[1][f]

\* a discount of 68 is evaluated at 70, not 73; the rest move by their step
C19_Witness ==
    /\ SweepOver
    /\ "Skidka" \in DOMAIN df[1]
    /\ df[1]["Skidka"] = 6800
    /\ \E k \in DOMAIN rc_calls :
          rc_calls[k].feature = "Skidka" /\ rc_calls[k].record["Skidka"] = 7000
    /\ Len(rc_calls) = 12

\* C20: every predictor call of the sweep receives a record that differs from
\* the original in exactly the perturbed feature, and between evaluations and
\* at the end the scratch copy equals the original record.
C20_NoCompounding ==
    /\ rc_pc \in {"sweep", "delivery", "summary", "done"} => df_copy = df[1]
    /\ \A k \in DOMAIN rc_calls :
          k > 1 =>
              {c \in DOMAIN df[1] : rc_calls[k].record[c] # df[1][c]}
                  = {rc_calls[k].feature}

\* eleven perturbed predictions made, the scratch copy back at the original
C20_Witness ==
    /\ rc_pc = "done"
    /\ Len(rc_calls) = 12
    /\ Len(recommendations) = 11
    /\ df_copy = df[1]

(***************************************************************************)
(* wildbox_client: the fetch operations as called one after another        *)
(***************************************************************************)
MaxCalls == 2

\* requests.get is called once in the try block; a failure goes to except
RequestsIssuedWithRetry(http) == IF http.ok THEN 1 ELSE 2
RequestsIssued(http) == 1

Fetched(fn, http, ret) ==
    [fn |-> fn, http |-> http, requests |-> RequestsIssued(http), ret |-> ret]

FtInit ==
    /\ ft_log = <<>>
    /\ GeoIdle /\ PvIdle /\ PrIdle /\ PdIdle /\ DlIdle /\ ExIdle
    /\ PfIdle /\ RcIdle /\ SvIdle /\ DsIdle

FtOthers == <<geo_vars, pv_vars, pr_vars, pd_vars, dl_vars, ex_vars,
              pf_vars, rc_vars, sv_vars, ds_vars>>

FtProduct ==
    /\ Len(ft_log) < MaxCalls
    /\ \E http \in ProductHttp :
          ft_log' = Append(ft_log,
                      Fetched("get_product_details", http, get_product_details(http)))
    /\ UNCHANGED FtOthers

FtBrand ==
    /\ Len(ft_log) < MaxCalls
    /\ \E http \in BrandHttp :
          ft_log' = Append(ft_log,
                      Fetched("get_brand_details", http, get_brand_details(http)))
    /\ UNCHANGED FtOthers

FtGeo ==
    /\ Len(ft_log) < MaxCalls
    /\ \E http \in GeoHttpSample :
          ft_log' = Append(ft_log,
                      Fetched("get_product_geo_visibility", http,
                              Ok(get_product_geo_visibility(http))))
    /\ UNCHANGED FtOthers

FtWarehouses ==
    /\ Len(ft_log) < MaxCalls
    /\ \E http \in WarehouseHttp :
          ft_log' = Append(ft_log,
                      Fetched("get_all_warehouses_for_product", http,
                              get_all_warehouses_for_product(http)))
    /\ UNCHANGED FtOthers

FtNext == FtProduct \/ FtBrand \/ FtGeo \/ FtWarehouses

SpecFetch == FtInit /\ [][FtNext]_vars

(***************************************************************************)
(* Fetch claims                                                            *)
(***************************************************************************)
\* the result of a call is the operation's empty result
EmptyResult(call) ==
    /\ call.ret.exc = "none"
    /\ IF call.fn = "get_all_warehouses_for_product"
       THEN call.ret.names = {}
       ELSE call.ret.val = EmptyDict

REGION_MAPPING ==
    {<<"MOSKVA - CFO", "Centralnyj">>, <<"SANKT-PETERBURG - SZFO", "Severo-Zapadnyj">>,
     <<"KRASNODAR - YUFO", "Yuzhnyj">>, <<"KAZAN - PFO", "Privolzhskij">>,
     <<"EKATERINBURG - UFO", "Uralskij">>, <<"NOVOSIBIRSK - SFO", "Sibirskij">>,
     <<"HABAROVSK - DFO", "Dalnevostochnyj">>}

CITY_MAPPING ==
    {<<"Centralnyj", "Moskva">>, <<"Severo-Zapadnyj", "Sankt-Peterburg">>,
     <<"Yuzhnyj", "Krasnodar">>, <<"Privolzhskij", "Kazan">>,
     <<"Uralskij", "Ekaterinburg">>, <<"Sibirskij", "Novosibirsk">>,
     <<"Dalnevostochnyj", "Habarovsk">>}

FEDERAL_DISTRICTS == {p[1] : p \in CITY_MAPPING}

\* mapping.get(key, dflt)
MapGet(mapping, key, dflt) ==
    IF \E p \in mapping : p[1] = key
    THEN (CHOOSE p \in mapping : p[1] = key)[2]
    ELSE dflt

\* Characters of an article: "7" is a decimal digit, "a" a letter and "sup2"
\* the superscript two, which str.isdigit accepts and int rejects.
DigitChars == {"7", "sup2"}
DecimalChars == {"7"}

\* str.isdigit(): not empty and every character a digit
IsDigit(article) ==
    article # <<>> /\ \A i \in DOMAIN article : article[i] \in DigitChars

\* int(article) raises ValueError unless every character is a decimal digit
IntParses(article) ==
    article # <<>> /\ \A i \in DOMAIN article : article[i] \in DecimalChars

ARTICLE_MUST_BE_NUMBER == "Artikul dolzhen byt chislom"
WRONG_REGION == "Nevernyj region"

Response(status, detail) == [status |-> status, detail |-> detail]

\* submit_user_request up to the response, given what the environment does:
\* whether the matrix loads, whether the extraction returns, whether the CSV
\* is written
SubmitOutcome(article, region, matrix_ok, extracted, csv_ok) ==
    LET mapped_region == MapGet(REGION_MAPPING, region, region)
        city == MapGet(CITY_MAPPING, mapped_region, "")
        none == [json |-> 0, csv |-> 0, extractions |-> 0]
    IN  IF ~IsDigit(article)
        THEN [resp |-> Response(400, ARTICLE_MUST_BE_NUMBER)] @@ none
        ELSE IF mapped_region \notin FEDERAL_DISTRICTS \/ city = ""
        THEN [resp |-> Response(400, WRONG_REGION)] @@ none
        ELSE IF ~IntParses(article)
        THEN [resp |-> Response(500, "Internal Server Error")] @@ none
        ELSE IF ~matrix_ok
        THEN [resp |-> Response(500, "matrix not loaded")] @@ none
        ELSE IF ~extracted
        THEN [resp |-> Response(500, "extraction failed"),
              json |-> 0, csv |-> 0, extractions |-> 1]
        ELSE [resp |-> Response(200, ""),
              json |-> 1, csv |-> IF csv_ok THEN 1 ELSE 0, extractions |-> 1]

\* get_recommendation up to the response: any exception raised in the try
\* block, the 404 HTTPException included, is caught by "except Exception"
\* and answered with status 500
RecommendationOutcome(csv_files, script_error) ==
    IF csv_files = 0 THEN Response(500, "404: no CSV files")
    ELSE IF script_error THEN Response(500, "500: script failed")
    ELSE Response(200, "")

(***************************************************************************)
(* Requests                                                                *)
(***************************************************************************)
MaxArticleLen == 2
MaxSubmits == 2

\* the callers of the endpoints; the requests carry no identification
Clients == {"c1", "c2"}

\* csv_files[0] of the files of history/ sorted by modification time,
\* newest first: the index of the file written last, 0 when there is none
LatestCsv(owners) == Len(owners)

Articles == SeqsUpTo({"7", "a", "sup2"}, MaxArticleLen)
Regions == {"MOSKVA - CFO", "Centralnyj", "Moskva", "NESUSHHESTVUYUSHHIJ REGION", ""}

SvInit ==
    /\ sv_json = 0 /\ sv_csv = 0 /\ sv_extractions = 0
    /\ sv_req = [op |-> "none"]
    /\ sv_resp = Response(0, "")
    /\ sv_owners = <<>> /\ sv_used = 0
    /\ GeoIdle /\ PvIdle /\ PrIdle /\ PdIdle /\ DlIdle /\ ExIdle
    /\ PfIdle /\ FtIdle /\ RcIdle /\ DsIdle

SvOthers == <<geo_vars, pv_vars, pr_vars, pd_vars, dl_vars, ex_vars,
              pf_vars, ft_vars, rc_vars, ds_vars>>

\* GET /region-options/
RegionOptions ==
    /\ \E client \in Clients : sv_req' = [op |-> "region_options", client |-> client]
    /\ sv_resp' = Response(200, "")
    /\ UNCHANGED <<sv_json, sv_csv, sv_extractions, sv_owners, sv_used, SvOthers>>

\* POST /submit-request/
SubmitRequest ==
    /\ sv_extractions < MaxSubmits
    /\ \E client \in Clients, article \in Articles, region \in Regions,
          matrix_ok \in BOOLEAN, extracted \in BOOLEAN, csv_ok \in BOOLEAN :
          LET out == SubmitOutcome(article, region, matrix_ok, extracted, csv_ok)
          IN  /\ sv_req' = [op |-> "submit", client |-> client,
                            article |-> article, region |-> region]
              /\ sv_resp' = out.resp
              /\ sv_json' = sv_json + out.json
              /\ sv_csv' = sv_csv + out.csv
              /\ sv_owners' = IF out.csv = 1 THEN Append(sv_owners, client)
                              ELSE sv_owners
              /\ sv_extractions' = sv_extractions + out.extractions
    /\ UNCHANGED <<sv_used, SvOthers>>

\* GET /get-recommendation/
GetRecommendation ==
    /\ \E script_error \in BOOLEAN :
          sv_resp' = RecommendationOutcome(sv_csv, script_error)
    /\ \E client \in Clients : sv_req' = [op |-> "get_recommendation", client |-> client]
    /\ sv_used' = LatestCsv(sv_owners)
    /\ UNCHANGED <<sv_json, sv_csv, sv_extractions, sv_owners, SvOthers>>

SvNext == RegionOptions \/ SubmitRequest \/ GetRecommendation

SpecServer == SvInit /\ [][SvNext]_vars

(***************************************************************************)
(* Server claims                                                           *)
(***************************************************************************)
\* C17: GET /get-recommendation/ answers 200 even when no submit-request was
\* made before it and no stored product record (CSV) exists.
C17_RecommendationWithoutSubmit ==
    (sv_req.op = "get_recommendation" /\ sv_csv = 0 /\ sv_extractions = 0) =>
        sv_resp.status = 200

\* the article is a number: a non-empty string of decimal digits
NumericArticle(article) ==
    article # <<>> /\ \A i \in DOMAIN article : article[i] = "7"

\* the region is one of the region options or a federal district
KnownRegion(region) ==
    \/ \E p \in REGION_MAPPING : p[1] = region
    \/ \E p \in CITY_MAPPING : p[1] = region

HistoryUntouched ==
    /\ sv_json' = sv_json
    /\ sv_csv' = sv_csv
    /\ sv_extractions' = sv_extractions

\* C18: a submit with a non-numeric article is answered 400 with the article
\* message, one with a numeric article and an unknown region 400 with the
\* region message; in both cases no feature extraction is made and no
\* history file is written.
C18_InvalidSubmitRejected ==
    [][sv_req'.op = "submit" =>
          /\ ~NumericArticle(sv_req'.article) =>
                /\ sv_resp' = Response(400, "Artikul dolzhen byt chislom")
                /\ HistoryUntouched
          /\ (NumericArticle(sv_req'.article) /\ ~KnownRegion(sv_req'.region)) =>
                /\ sv_resp' = Response(400, "Nevernyj region")
                /\ HistoryUntouched]_vars

(***************************************************************************)
(* Report claims                                                           *)
(***************************************************************************)
RECURSIVE SumRanked(_)
SumRanked(S) ==
    IF S = {} THEN 0
    ELSE LET i == CHOOSE j \in S : TRUE
         IN  recommendations[i].improvement + SumRanked(S \ {i})

\* C21: the primary recommendations are the first five entries of the ranked
\* list (all of it when shorter), the summary lists its first three, the
\* total is the sum of their improvements (0 without any) and the verdict is
\* 'significant' exactly when the total is >= 1000.
C21_TopFiveTopThree ==
    /\ Sorted =>
          /\ Len(report.primary) = Least(5, Len(recommendations))
          /\ \A i \in DOMAIN report.primary : report.primary[i] = recommendations[i]
    /\ rc_pc = "done" =>
          /\ Len(report.top_3) = Least(3, Len(recommendations))
          /\ \A i \in DOMAIN report.top_3 : report.top_3[i] = recommendations[i]
          /\ report.total_improvement = SumRanked(DOMAIN report.top_3)
          /\ report.verdict = "significant" <=> report.total_improvement >= 100000
          /\ report.verdict \in {"significant", "further_measures"}

\* eleven recommendations ranked: five shown, three summed to 1200
C21_Witness ==
    /\ rc_pc = "done"
    /\ Len(recommendations) = 11
    /\ Len(report.primary) = 5
    /\ Len(report.top_3) = 3
    /\ report.total_improvement = 120000
    /\ report.verdict = "significant"

\* the per-region delivery columns of the record, in record order
RegionColumns ==
    SelectSeq(<<"Dostavka_YUFO", "Dostavka_PFO", "Dostavka_UFO", "Dostavka_DFO",
                "Dostavka_SFO", "Dostavka_SZFO", "Dostavka_CFO">>,
              LAMBDA c : c \in DOMAIN df[1])

RegionNamed(col) ==
    CASE col = "Dostavka_YUFO" -> "YUFO" [] col = "Dostavka_PFO" -> "PFO"
      [] col = "Dostavka_UFO" -> "UFO" [] col = "Dostavka_DFO" -> "DFO"
      [] col = "Dostavka_SFO" -> "SFO" [] col = "Dostavka_SZFO" -> "SZFO"
      [] col = "Dostavka_CFO" -> "CFO"

\* C22: the diagnosis is emitted exactly when a per-region delivery column is
\* present; it names the first column, in record order, holding the maximum
\* of those columns and gives that maximum minus 5 as target; the average
\* delivery time is never diagnosed.
C22_WorstRegion ==
    rc_pc \in {"summary", "done"} =>
        IF RegionColumns = <<>> THEN report.worst = <<>>
        ELSE /\ Len(report.worst) = 1
             /\ \E i \in DOMAIN RegionColumns :
                   /\ report.worst[1].region = RegionNamed(RegionColumns[i])
                   /\ report.worst[1].hours = df[1][RegionColumns[i]]
                   /\ \A j \in DOMAIN RegionColumns :
                         /\ df[1][RegionColumns[j]] <= df[1][RegionColumns[i]]
                         /\ j < i => df[1][RegionColumns[j]] < df[1][RegionColumns[i]]
             /\ report.worst[1].target = report.worst[1].hours - 500

\* PFO and UFO tie at 48 hours, above YUFO, CFO and below the average 96:
\* PFO, the first of the two, is diagnosed with target 43
C22_Witness ==
    /\ rc_pc = "done"
    /\ "Dostavka_YUFO" \in DOMAIN df[1] /\ df[1]["Dostavka_YUFO"] = 1000
    /\ df[1]["Dostavka_UFO"] = 4800
    /\ df[1]["Sr_vremja_dostavki"] = 9600
    /\ report.worst = <<[region |-> "PFO", hours |-> 4800, target |-> 4300]>>


\* C28: every recommendation proposes a value within the configured bounds of
\* its feature that lies below the original when the step is negative and
\* above it when the step is positive, whatever the original value.
C28_WithinBoundsInStepDirection ==
    \A k \in DOMAIN recommendations :
        LET r == recommendations[k]
            params == ParamsOf(r.feature)
        IN  /\ params.min # <<>> => r.new >= params.min[1]
            /\ params.max # <<>> => r.new <= params.max[1]
            /\ params.delta < 0 => r.new < r.original
            /\ params.delta > 0 => r.new > r.original


(***************************************************************************)
(* Correlation of the two endpoints                                        *)
(***************************************************************************)
\* the file written by the last submit-request of a client that saved one
OwnCsv(client) ==
    LET mine == {i \in DOMAIN sv_owners : sv_owners[i] = client}
    IN  CHOOSE i \in mine : \A j \in mine : j <= i

\* C27: a get-recommendation call of a client that has a saved submit-request
\* is computed from the record of that client's last submit-request, whatever
\* other clients submitted in between.
C27_OwnRecordUsed ==
    (/\ sv_req.op = "get_recommendation"
     /\ \E i \in DOMAIN sv_owners : sv_owners[i] = sv_req.client)
        => sv_used = OwnCsv(sv_req.client)


(***************************************************************************)
(* Validation of the logistics matrix                                      *)
(***************************************************************************)
\* C24: with a logistics matrix that is not tabular, extract_product_features
\* makes no collaborator call at all and does not return a record: the
\* caller is told of the rejection.
C24_MatrixRejectedFirst ==
    ~ex_matrix.frame =>
        /\ ex_calls = <<>>
        /\ ex_pc # "done"


(***************************************************************************)
(* Position features on empty and malformed input                          *)
(***************************************************************************)
\* what the position fetch handed to get_position_features
PositionsFetched == get_warehouse_positions(pf_http)

NothingToProcess ==
    \/ pf_query.t # "str" \/ pf_query = PyStr("")
    \/ PositionsFetched.t # "list" \/ PositionsFetched = PyList(<<>>)

Mappings == SelectSeq(Received, LAMBDA pos : pos.t = "dict")

\* C25: with an empty or non-text query, an empty list or a non-list from the
\* fetch, get_position_features raises nothing and returns nulls and zeros;
\* entries of the list that are not mappings change nothing but
\* positions_found.
C25_NullsAndZeros ==
    pf_ret # NotCalled =>
        /\ pf_ret.exc = "none"
        /\ NothingToProcess =>
              pf_ret.val = PyDict([avg_position |-> PyNone, expected_position |-> PyNone,
                                   positions_count |-> PyInt(0), positions_found |-> PyInt(0),
                                   first_valid_position |-> PyNone])
        /\ PfListed =>
              LET clean == get_position_features(pf_query, HttpOk(PyList(Mappings))).val.v
              IN  \A k \in {"avg_position", "expected_position", "positions_count",
                            "first_valid_position"} : PfField(k) = clean[k]

\* a JSON object without 'detail' came back instead of a list
C25_Witness ==
    /\ pf_ret # NotCalled
    /\ pf_query = PyStr("q")
    /\ pf_http = HttpOk(PyDict([count |-> PyInt(1)]))
    /\ PfField("positions_found") = PyInt(0)
    /\ PfField("avg_position") = PyNone

PositionValues == {PfField(k) : k \in {"avg_position", "first_valid_position", "expected_position"}}

\* C29 as stated: the counts are ordered, the three values are all null when
\* positions_count is 0 and all non-null and strictly positive otherwise.
C29_AllStrictlyPositive ==
    pf_ret # NotCalled =>
        /\ 0 <= PfField("positions_count").v
        /\ PfField("positions_count").v <= PfField("positions_found").v
        /\ PfField("positions_count").v = 0 => PositionValues = {PyNone}
        /\ PfField("positions_count").v > 0 =>
              \A x \in PositionValues : x.t = "float" /\ x.v > 0

\* C29, amended: the counts are ordered, the three values are all null when
\* positions_count is 0 and all non-null otherwise; first_valid_position is
\* then strictly positive, avg_position and expected_position are not
\* negative.
C29_NullTogether ==
    pf_ret # NotCalled =>
        /\ 0 <= PfField("positions_count").v
        /\ PfField("positions_count").v <= PfField("positions_found").v
        /\ PfField("positions_count").v = 0 => PositionValues = {PyNone}
        /\ PfField("positions_count").v > 0 =>
              /\ \A x \in PositionValues : x.t = "float" /\ x.v >= 0
              /\ PfField("first_valid_position").v > 0

\* a single position of 0.04: the mean rounds to 0.0
C29_Witness ==
    /\ pf_ret # NotCalled
    /\ PfField("positions_count") = PyInt(1)
    /\ PfField("first_valid_position") = PyFloat(4)
    /\ PfField("avg_position") = PyFloat(0)
    /\ PfField("expected_position") = PyFloat(0)


(***************************************************************************)
(* Malformed promotions                                                    *)
(***************************************************************************)
\* the promotions of the input whose two dates are present and parse
Parseable(promos) == PyList(SelectSeq(promos.v, LAMBDA promo : promo \in WellFormedPromo))

\* C26: a promotion whose start or end date is missing, null or unparseable
\* is skipped by itself: no exception leaves process_promos, promo_days is
\* what the other promotions alone give, and has_promos is 1 exactly when
\* the list is not empty.
C26_BadPromoSkipped ==
    (pr_ret # NotCalled /\ \A i \in DOMAIN pr_promos.v : pr_promos.v[i].t = "dict") =>
        /\ pr_ret.exc = "none"
        /\ pr_ret.val.v["promo_days"] = process_promos(Parseable(pr_promos)).val.v["promo_days"]
        /\ pr_ret.val.v["has_promos"] = PyInt(IF pr_promos.v = <<>> THEN 0 ELSE 1)


(***************************************************************************)
(* parsing.create_dataset                                                  *)
(*                                                                         *)
(* One batch: the length check, the load of the logistics matrix, one      *)
(* extraction per (product_id, query) pair.  The extraction of a pair is    *)
(* the pipeline above with every fetch failing except the geo-visibility   *)
(* one, whose response is chosen per product.                              *)
(***************************************************************************)
MaxProducts == 2

ProductIds == {PyInt(101), PyInt(102)}

\* pd.read_excel(matrix_path): the frame, or the exception it raises
ReadExcel == {"loaded", "FileNotFoundError", "ParserError", "ValueError"}

\* extract_product_features(pid, query, df_matrix) when only the
\* geo-visibility request is answered
ExtractRow(pid, query, geo_response) ==
    LET visibility == get_average_geo_visibility(geo_response)
    IN  IF visibility.exc # "none" THEN Raise(visibility.exc)
        ELSE Ok(Update(InitialFeatures(pid, query), [avg_visibility |-> visibility.val]))

DsInit ==
    /\ product_ids \in SeqsUpTo(ProductIds, MaxProducts)
    /\ search_queries \in SeqsUpTo(QuerySample, MaxProducts)
    /\ ds_pc = "check" /\ ds_i = 0 /\ dataset = <<>> /\ ds_raised = "none"
    /\ GeoIdle /\ PvIdle /\ PrIdle /\ PdIdle /\ DlIdle /\ ExIdle
    /\ PfIdle /\ FtIdle /\ RcIdle /\ SvIdle

DsOthers == <<geo_vars, pv_vars, pr_vars, pd_vars, dl_vars, ex_vars,
              pf_vars, ft_vars, rc_vars, sv_vars>>

\* if len(product_ids) != len(search_queries): raise ValueError
DsCheck ==
    /\ ds_pc = "check"
    /\ IF Len(product_ids) # Len(search_queries)
       THEN ds_pc' = "raised" /\ ds_raised' = "ValueError"
       ELSE ds_pc' = "load" /\ ds_raised' = "none"
    /\ UNCHANGED <<product_ids, search_queries, ds_i, dataset, DsOthers>>

\* df_matrix = pd.read_excel(matrix_path), sys.exit(1) on FileNotFoundError
\* and ParserError
DsLoad ==
    /\ ds_pc = "load"
    /\ \E outcome \in ReadExcel :
          CASE outcome = "loaded" -> ds_pc' = "loop" /\ ds_i' = 1 /\ ds_raised' = "none"
            [] outcome \in {"FileNotFoundError", "ParserError"} ->
                 ds_pc' = "exit" /\ ds_i' = ds_i /\ ds_raised' = "SystemExit"
            [] OTHER -> ds_pc' = "raised" /\ ds_i' = ds_i /\ ds_raised' = outcome
    /\ UNCHANGED <<product_ids, search_queries, dataset, DsOthers>>

\* one iteration of "for pid, query in zip(product_ids, search_queries)"
DsExtract ==
    /\ ds_pc = "loop"
    /\ ds_i <= Len(product_ids)
    /\ \E geo_response \in GeoHttpSample :
          LET row == ExtractRow(product_ids[ds_i], search_queries[ds_i], geo_response)
          IN  IF row.exc = "none"
              THEN /\ dataset' = Append(dataset, row.val)
                   /\ ds_i' = ds_i + 1
                   /\ UNCHANGED <<ds_pc, ds_raised>>
              ELSE IF row.exc \in CAUGHT
              THEN /\ ds_i' = ds_i + 1
                   /\ UNCHANGED <<dataset, ds_pc, ds_raised>>
              ELSE /\ ds_pc' = "raised" /\ ds_raised' = row.exc
                   /\ UNCHANGED <<dataset, ds_i>>
    /\ UNCHANGED <<product_ids, search_queries, DsOthers>>

\* return pd.DataFrame(dataset)
DsReturn ==
    /\ ds_pc = "loop"
    /\ ds_i > Len(product_ids)
    /\ ds_pc' = "done"
    /\ UNCHANGED <<product_ids, search_queries, ds_i, dataset, ds_raised, DsOthers>>

DsNext == DsCheck \/ DsLoad \/ DsExtract \/ DsReturn

SpecDataset == DsInit /\ [][DsNext]_vars

(***************************************************************************)
(* Batch claims                                                            *)
(***************************************************************************)
\* C23: once the lists have equal lengths and the matrix is loaded, nothing is
\* raised while the products are processed, and the dataset returned has one
\* row per (product_id, query) pair, in input order.
C23_OneRowPerPair ==
    /\ ds_pc = "raised" => ds_i = 0
    /\ ds_pc = "done" =>
          /\ Len(dataset) = Len(product_ids)
          /\ \A i \in DOMAIN dataset :
                /\ dataset[i]["product_id"] = product_ids[i]
                /\ dataset[i]["query"] = search_queries[i]

====
